---- MODULE Spec2Model ----
(***************************************************************************)
(* Model of the amb_print_app exporters and template generator.            *)
(*                                                                         *)
(*   src/src/exporters/base_exporter.py       BaseExporter                 *)
(*   src/src/exporters/html_jinja_exporter.py HTMLJinjaExporter            *)
(*   src/src/template_generator.py            TemplateGenerator            *)
(*                                                                         *)
(* Python values are records with a type tag, so that values of different  *)
(* Python types can be compared.  A dict is the sequence of its items in   *)
(* insertion order.  A string built by interpolation is the sequence of    *)
(* its segments: fixed markup segments and interpolated segments, so that  *)
(* "the text contains s" is "s is one of the segments".                    *)
(*                                                                         *)
(* The exporter fields mapping, metadata, warnings and html_content are    *)
(* written but never read by the operations modelled here and are left     *)
(* out.                                                                    *)
(***************************************************************************)
EXTENDS Integers, Sequences, FiniteSets, TLC

VARIABLES
    errors,          \* BaseExporter.errors
    jinja_template,  \* HTMLJinjaExporter.jinja_template
    self_mapping,    \* BaseExporter.mapping
    fs,              \* the files at the output paths
    pc,              \* position of the current exporter call
    cur,             \* the operation in progress or last finished, and its arguments
    ret,             \* the value the last finished call returned
    writes,          \* number of to_file invocations made by the current export call
    loaded,          \* the mapping read back from the last exported JSON file
    elements,        \* TemplateGenerator.elements
    output_format,   \* TemplateGenerator.output_format
    template,        \* the value the last call on the generator returned
    pdf,             \* the pages of the PDF file at PDFParser.pdf_path
    document,        \* PDFParser.document: "None", "open" or "closed"
    p_elements,      \* PDFParser.elements
    p_pc,            \* position of the current parse_all_pages call
    page_num,        \* the loop variable of parse_all_pages
    visited,         \* the page numbers handed to _parse_page by the current call
    p_ret,           \* what the last parse_all_pages call returned or raised
    p_prev,          \* the list an earlier parse_all_pages call returned to its caller
    b_doctype,       \* the doctype handed to process_document_type
    b_docs,          \* what frappe.get_all returned: the documents, in order
    b_results,       \* the results dict of process_document_type
    b_next,          \* position in b_docs of the document the loop takes next
    b_pc,            \* position of the process_document_type call
    u_creds,         \* what the credentials file of 06_api_upload.py holds
    u_file,          \* what the formats file holds
    u_formats,       \* batch_upload: the list `formats`
    u_stats,         \* batch_upload: the dict `stats`
    u_next,          \* batch_upload: position in u_formats of the format taken next
    u_posts,         \* the names of the formats POSTed so far, one entry per request
    u_pc,            \* position of the 06_api_upload.py process
    u_exit,          \* its exit code, -1 while it has not exited
    job,             \* the committed "Print Migration Job" record
    j_logs,          \* the number of "Print Migration Log" documents
    j_clock,         \* now_datetime(), as a logical clock
    w_pc,            \* per worker: position in scheduled_batch_migration / run_migration_job
    w_seen,          \* per worker: the status scheduled_batch_migration read, "none" without a check
    w_doc_types,     \* per worker: len(doc_types), the rows of document_types it read
    w_idx,           \* per worker: idx of the loop over doc_types
    w_logs,          \* per worker: the status of the migration logs its run created
    w_out,           \* per worker: how its last invocation ended
    o_setup,         \* orchestrator: what exists on disk, config and the three scripts
    o_fmt_file,      \* orchestrator: the --formats-file argument
    o_output_dir,    \* the directory data/field_mappings on disk
    o_results,       \* execute: the dict `results`, as a sequence of <<stage, value>>
    o_stages,        \* the stages that were run, in order
    o_pc,            \* position of the 08_phase4_orchestrator.py process
    o_exit,          \* its exit code, -1 while it has not exited
    metadata,        \* BaseExporter.metadata, a dict
    export_info,     \* what the last get_export_info() returned
    task_history,    \* TaskManager.task_history
    success_count,   \* TaskManager.success_count
    failure_count,   \* TaskManager.failure_count
    t_command,       \* 09_task_manager.py: sys.argv[1], "none" in interactive mode
    t_stages,        \* run_full_pipeline: results["stages"], as a sequence of <<stage, output>>
    t_summary,       \* run_full_pipeline: results["summary"]
    t_last,          \* what the last run_script call returned
    t_pc,            \* position of the 09_task_manager.py process
    t_exit,          \* its exit code, -1 while it has not exited
    table_widget,    \* TableMapperWidget.table_widget: the rows, each a sequence of cell texts
    column_names,    \* TableMapperWidget.column_names
    tw_last,         \* the last action on the TableMapperWidget
    tw_warned,       \* whether that action showed the QMessageBox warning
    table_mapper,    \* MappingEditorWindow.table_mapper: its rowCount()
    current_mapping, \* MappingEditorWindow.current_mapping
    e_emitted,       \* the signals the last handler of the window emitted, in order
    e_warned         \* whether that handler showed the QMessageBox warning

exporterVars == <<errors, jinja_template, self_mapping, fs, pc, cur, ret, writes, loaded>>
generatorVars == <<elements, output_format, template>>
parserVars == <<pdf, document, p_elements, p_pc, page_num, visited, p_ret, p_prev>>

batchVars == <<b_doctype, b_docs, b_results, b_next, b_pc>>

uploadVars == <<u_creds, u_file, u_formats, u_stats, u_next, u_posts, u_pc, u_exit>>

jobVars == <<job, j_logs, j_clock, w_pc, w_seen, w_doc_types, w_idx, w_logs, w_out>>

orchVars == <<o_setup, o_fmt_file, o_output_dir, o_results, o_stages, o_pc, o_exit>>

metadataVars == <<metadata, export_info>>

taskVars == <<task_history, success_count, failure_count, t_command, t_stages, t_summary,
              t_last, t_pc, t_exit>>

widgetVars == <<table_widget, column_names, tw_last, tw_warned, table_mapper, current_mapping,
                e_emitted, e_warned>>

vars == <<exporterVars, generatorVars, parserVars, batchVars, uploadVars, jobVars, orchVars,
          metadataVars, taskVars, widgetVars>>

nonExporterVars == <<generatorVars, parserVars, batchVars, uploadVars, jobVars, orchVars,
    metadataVars, taskVars, widgetVars>>
nonGeneratorVars == <<exporterVars, parserVars, batchVars, uploadVars, jobVars, orchVars,
    metadataVars, taskVars, widgetVars>>
nonParserVars == <<exporterVars, generatorVars, batchVars, uploadVars, jobVars, orchVars,
    metadataVars, taskVars, widgetVars>>
nonBatchVars == <<exporterVars, generatorVars, parserVars, uploadVars, jobVars, orchVars,
    metadataVars, taskVars, widgetVars>>
nonUploadVars == <<exporterVars, generatorVars, parserVars, batchVars, jobVars, orchVars,
    metadataVars, taskVars, widgetVars>>
nonJobVars == <<exporterVars, generatorVars, parserVars, batchVars, uploadVars, orchVars,
    metadataVars, taskVars, widgetVars>>
nonOrchVars == <<exporterVars, generatorVars, parserVars, batchVars, uploadVars, jobVars,
    metadataVars, taskVars, widgetVars>>
nonMetadataVars == <<exporterVars, generatorVars, parserVars, batchVars, uploadVars, jobVars,
    orchVars, taskVars, widgetVars>>
nonTaskVars == <<exporterVars, generatorVars, parserVars, batchVars, uploadVars, jobVars,
    orchVars, metadataVars, widgetVars>>
nonWidgetVars == <<exporterVars, generatorVars, parserVars, batchVars, uploadVars, jobVars,
    orchVars, metadataVars, taskVars>>

----------------------------------------------------------------------------
(* Bounds *)

MaxErrors == 2      \* generate_html is handed a non-dict only while the error list is shorter
MaxElems == 3       \* longest element list handed to the template generator
MaxPages == 2       \* most pages of a PDF document
MaxDocs == 3        \* most documents frappe.get_all returns for a doctype
MaxFormats == 2     \* most print formats in a formats file
MaxDocTypes == 2    \* most rows of the document_types table of the job
MaxRuns == 3        \* most executions of run_migration_job in a behaviour
MaxFiles == 2       \* most JSON files in data/field_mappings
MaxTasks == 4       \* most entries of the task history of one task manager process
MaxRows == 3        \* most rows the user gives a child table
MaxCols == 6        \* most columns the user gives a child table

----------------------------------------------------------------------------
(* Python values *)

PyNone == [t |-> "none", s |-> "", n |-> 0, rows |-> <<>>]
PyStr(x) == [t |-> "str", s |-> x, n |-> 0, rows |-> <<>>]
PyInt(k) == [t |-> "int", s |-> "", n |-> k, rows |-> <<>>]
PyList(rs) == [t |-> "list", s |-> "", n |-> 0, rows |-> rs]

\* a child-table row: a list (or dict) of cells, which has a len(), or a
\* scalar, which has none
Row(cells) == [sized |-> TRUE, cells |-> cells]
ScalarRow == [sized |-> FALSE, cells |-> <<>>]

\* Python truthiness: `not mapping[field]`
Truthy(v) ==
    CASE v.t = "none" -> FALSE
      [] v.t = "str"  -> v.s # ""
      [] v.t = "int"  -> v.n # 0
      [] v.t = "list" -> v.rows # <<>>

\* isinstance(v, list) and isinstance(v, str)
IsList(v) == v.t = "list"
IsStr(v) == v.t = "str"

\* a dict: its items in insertion order
Dict(items) == [isdict |-> TRUE, items |-> items]
NotADict == [isdict |-> FALSE, items |-> <<>>]
Item(k, v) == [k |-> k, v |-> v]

\* `key in mapping` and `mapping[key]`
Has(mapping, key) == \E i \in DOMAIN mapping.items : mapping.items[i].k = key
Get(mapping, key) ==
    mapping.items[CHOOSE i \in DOMAIN mapping.items : mapping.items[i].k = key].v

----------------------------------------------------------------------------
(* BaseExporter *)

Err(kind, field, found) == [kind |-> kind, field |-> field, found |-> found]

\* self.errors = []
clear_messages == <<>>

\* self.errors.append(error)
add_error(errs, error) == Append(errs, error)

RECURSIVE validate_mandatory_fields(_, _, _)
\* returns the verdict and the error list left behind
validate_mandatory_fields(errs, mapping, required_fields) ==
    IF required_fields = <<>>
    THEN [ok |-> TRUE, errors |-> errs]
    ELSE LET field == Head(required_fields) IN
         IF ~Has(mapping, field) \/ ~Truthy(Get(mapping, field))
         THEN [ok |-> FALSE,
               errors |-> add_error(errs, Err("mandatory", field, 0))]
         ELSE validate_mandatory_fields(errs, mapping, Tail(required_fields))

\* validate_child_table without the row-count test
validate_child_table_any_length(errs, mapping, table_field, min_rows) ==
    IF ~Has(mapping, table_field)
    THEN [ok |-> FALSE,
          errors |-> add_error(errs, Err("child_table_not_found", table_field, 0))]
    ELSE IF ~IsList(Get(mapping, table_field))
    THEN [ok |-> FALSE,
          errors |-> add_error(errs, Err("child_table_rows", table_field, 0))]
    ELSE [ok |-> TRUE, errors |-> errs]

validate_child_table(errs, mapping, table_field, min_rows) ==
    IF ~Has(mapping, table_field)
    THEN [ok |-> FALSE,
          errors |-> add_error(errs, Err("child_table_not_found", table_field, 0))]
    ELSE LET table_data == Get(mapping, table_field) IN
         IF ~IsList(table_data) \/ Len(table_data.rows) < min_rows
         THEN [ok |-> FALSE,
               errors |-> add_error(errs,
                   Err("child_table_rows", table_field,
                       IF IsList(table_data) THEN Len(table_data.rows) ELSE 0))]
         ELSE [ok |-> TRUE, errors |-> errs]

----------------------------------------------------------------------------
(* HTMLJinjaExporter *)

required_fields == <<"product_item">>
MinRows == 1

\* validate_mapping without self.clear_messages()
validate_mapping_no_clear(errs, mapping) ==
    LET mand == validate_mandatory_fields(errs, mapping, required_fields)
    IN  IF ~mand.ok
        THEN mand
        ELSE validate_child_table(mand.errors, mapping, "child_table", MinRows)

\* validate_mapping running both checks whatever the first one says
validate_mapping_both_checks(errs, mapping) ==
    LET mand == validate_mandatory_fields(clear_messages, mapping, required_fields)
        child == validate_child_table(mand.errors, mapping, "child_table", MinRows)
    IN  [ok |-> mand.ok /\ child.ok, errors |-> child.errors]

validate_mapping(errs, mapping) ==
    LET cleared == clear_messages
        mand == validate_mandatory_fields(cleared, mapping, required_fields)
    IN  IF ~mand.ok
        THEN mand
        ELSE validate_child_table(mand.errors, mapping, "child_table", MinRows)

\* a text: the sequence of its segments; "" is the empty sequence
RECURSIVE Join(_, _)
\* sep.join(parts)
Join(parts, sep) ==
    IF parts = <<>> THEN <<>>
    ELSE IF Len(parts) = 1 THEN Head(parts)
    ELSE Head(parts) \o <<sep>> \o Join(Tail(parts), sep)

\* `s in text`, for a segment s
Contains(text, s) == \E i \in DOMAIN text : text[i] = s

\* the parts appended by the two loops over range(len(table_data[0]))
HeaderParts(ncols) == [i \in 1..ncols |-> <<"<th>", "Column ", ToString(i), "</th>">>]
CellParts(ncols) == [i \in 1..ncols |-> <<"<td>{{ row.field_", ToString(i - 1), " }}</td>">>]

\* len(table_data[0]) raises TypeError when the first row has no len()
build_table_html(table_data) ==
    IF table_data = <<>>
    THEN [raised |-> FALSE, text |-> <<>>]
    ELSE IF ~table_data[1].sized
    THEN [raised |-> TRUE, text |-> <<>>]
    ELSE LET ncols == Len(table_data[1].cells)
             html_parts ==
                 << <<"<div class=\"section\"><b>Child Table</b>">>,
                    <<"<table>">>,
                    <<"<thead><tr>">> >>
                 \o HeaderParts(ncols)
                 \o << <<"</tr></thead><tbody>">>,
                       <<"{% for row in doc.child_table %}<tr>">> >>
                 \o CellParts(ncols)
                 \o << <<"</tr>{% endfor %}</tbody></table></div>">> >>
         IN  [raised |-> FALSE, text |-> Join(html_parts, "\n")]

RECURSIVE FieldParts(_)
\* the parts appended by the loop over mapping.items()
FieldParts(items) ==
    IF items = <<>> THEN <<>>
    ELSE LET field_name == Head(items).k
             field_value == Head(items).v
         IN  (IF field_name # "child_table" /\ IsStr(field_value)
              THEN << <<"<div><span class=\"field-label\">", field_name,
                        ":</span> <span>{{ doc.", field_name, " }}</span></div>">> >>
              ELSE <<>>)
             \o FieldParts(Tail(items))

build_html_from_mapping(mapping) ==
    LET top == << <<"<div class=\"section\">">> >>
               \o FieldParts(mapping.items)
               \o << <<"</div>">> >>
    IN  IF Has(mapping, "child_table") /\ IsList(Get(mapping, "child_table"))
        THEN LET table == build_table_html(Get(mapping, "child_table").rows) IN
             [raised |-> table.raised,
              text |-> IF table.raised THEN <<>>
                       ELSE Join(top \o <<table.text>>, "\n")]
        ELSE [raised |-> FALSE, text |-> Join(top, "\n")]

\* JINJA_TEMPLATE_SKELETON, cut at the tags and at "{{ content }}"
SkeletonHead ==
    <<"\n{%- set doc = doc -%}\n<!DOCTYPE html>\n", "<html>",
      "\n<head>...</head>\n<body>\n<div class=\"header\">{{ doc.name }}</div>\n<div class=\"section\">\n">>
SkeletonTail ==
    <<"\n</div>\n<div><p>Generated on: {{ now() }}</p></div>\n</body>\n", "</html>", "\n">>

\* JINJA_TEMPLATE_SKELETON.replace("{{ content }}", html_content)
generate_jinja_template(html_content) == SkeletonHead \o html_content \o SkeletonTail

\* export_mapping storing the mapping before it validates it
export_mapping_store_first(errs, tmpl, stored, mapping) ==
    LET v == validate_mapping(errs, mapping) IN
    IF ~v.ok
    THEN [raised |-> FALSE, text |-> <<>>, errors |-> v.errors, jinja_template |-> tmpl,
          mapping |-> mapping]
    ELSE LET html_content == build_html_from_mapping(mapping) IN
         IF html_content.raised
         THEN [raised |-> TRUE, text |-> <<>>, errors |-> v.errors, jinja_template |-> tmpl,
               mapping |-> mapping]
         ELSE [raised |-> FALSE,
               text |-> generate_jinja_template(html_content.text),
               errors |-> v.errors,
               jinja_template |-> generate_jinja_template(html_content.text),
               mapping |-> mapping]

\* returns the template ("" when the mapping is invalid), whether building
\* it raised, and the exporter's fields afterwards
export_mapping(errs, tmpl, stored, mapping) ==
    LET v == validate_mapping(errs, mapping) IN
    IF ~v.ok
    THEN [raised |-> FALSE, text |-> <<>>, errors |-> v.errors, jinja_template |-> tmpl,
          mapping |-> stored]
    ELSE LET html_content == build_html_from_mapping(mapping) IN
         IF html_content.raised
         THEN [raised |-> TRUE, text |-> <<>>, errors |-> v.errors, jinja_template |-> tmpl,
               mapping |-> mapping]
         ELSE [raised |-> FALSE,
               text |-> generate_jinja_template(html_content.text),
               errors |-> v.errors,
               jinja_template |-> generate_jinja_template(html_content.text),
               mapping |-> mapping]

----------------------------------------------------------------------------
(* The output paths and what open(filepath, 'w') and f.write do there *)

OkPath == "out.html"                  \* open and write succeed
MissingDirPath == "/missing/out.html" \* open raises: no such directory
FullDiskPath == "/full/out.html"      \* open truncates, write raises
Paths == {OkPath, MissingDirPath, FullDiskPath}

NoFile == [exists |-> FALSE, data |-> <<>>]
File(data) == [exists |-> TRUE, data |-> data]

\* to_file returning True from its except branch
to_file_swallow(errs, tmpl, files, filepath) ==
    CASE filepath = OkPath ->
           [ok |-> TRUE, errors |-> errs,
            fs |-> [files EXCEPT ![filepath] = File(tmpl)]]
      [] filepath = MissingDirPath ->
           [ok |-> TRUE, errors |-> add_error(errs, Err("write", filepath, 0)),
            fs |-> files]
      [] OTHER ->
           [ok |-> TRUE, errors |-> add_error(errs, Err("write", filepath, 0)),
            fs |-> [files EXCEPT ![filepath] = File(<<>>)]]

to_file(errs, tmpl, files, filepath) ==
    CASE filepath = OkPath ->
           [ok |-> TRUE, errors |-> errs,
            fs |-> [files EXCEPT ![filepath] = File(tmpl)]]
      [] filepath = MissingDirPath ->
           [ok |-> FALSE, errors |-> add_error(errs, Err("write", filepath, 0)),
            fs |-> files]
      [] OTHER ->
           [ok |-> FALSE, errors |-> add_error(errs, Err("write", filepath, 0)),
            fs |-> [files EXCEPT ![filepath] = File(<<>>)]]

generate_html(errs, mapping) ==
    IF ~mapping.isdict
    THEN [text |-> <<>>, raised |-> FALSE,
          errors |-> add_error(errs, Err("not_a_dict", "", 0))]
    ELSE LET html_content == build_html_from_mapping(mapping) IN
         [text |-> html_content.text, raised |-> html_content.raised, errors |-> errs]

----------------------------------------------------------------------------
(* The mappings handed to the exporter.  The grid holds every combination  *)
(* of a product_item entry and a child_table entry, after a name entry;    *)
(* the fixtures are the mappings of tests/conftest.py, which keep their    *)
(* rows under the key child_table_data.                                    *)

NameItem == <<Item("name", PyStr("AMB-COA-001"))>>
ProductItems ==
    {<<>>} \cup {<<Item("product_item", v)>> :
                    v \in {PyNone, PyStr(""), PyInt(0), PyStr("Product-001")}}
Tables ==
    {<< >>,
     <<Row(<<"ITEM-001">>)>>,
     <<Row(<<"ITEM-001", "10">>)>>,
     <<Row(<<"ITEM-001">>), Row(<<"ITEM-002">>)>>,
     <<ScalarRow>>}
ChildTableItems ==
    {<<>>, <<Item("child_table", PyStr("rows"))>>}
    \cup {<<Item("child_table", PyList(rs))>> : rs \in Tables}

GridMappings == {Dict(NameItem \o p \o c) : p \in ProductItems, c \in ChildTableItems}

sample_mapping_data ==
    Dict(NameItem \o <<Item("product_item", PyStr("Product-001")),
                       Item("child_table_data",
                            PyList(<<Row(<<"ITEM-001", "10", "100">>)>>))>>)
invalid_mapping_empty_table ==
    Dict(NameItem \o <<Item("product_item", PyStr("Product-001")),
                       Item("child_table_data", PyList(<<>>))>>)

Mappings == GridMappings \cup {sample_mapping_data, invalid_mapping_empty_table}

----------------------------------------------------------------------------
(* Calls on one HTMLJinjaExporter instance *)

NoRet == [status |-> "none", errors |-> <<>>, output_path |-> "None", text |-> <<>>]
ErrorResult(errs) ==
    [status |-> "error", errors |-> errs, output_path |-> "None", text |-> <<>>]
SuccessResult(errs, output_path) ==
    [status |-> "success", errors |-> errs, output_path |-> output_path, text |-> <<>>]
BoolResult(b, errs) ==
    [status |-> IF b THEN "True" ELSE "False", errors |-> errs,
     output_path |-> "None", text |-> <<>>]
TextResult(text, errs) ==
    [status |-> "text", errors |-> errs, output_path |-> "None", text |-> text]

\* a call: its arguments, and the file at its output path when it was made
Call(op, mapping, path) ==
    [op |-> op, mapping |-> mapping, path |-> path,
     before |-> IF path \in Paths THEN fs[path] ELSE NoFile]

\* no call is in progress
Idle == pc \in {"idle", "exported", "rejected", "reloaded"}

\* validate_mapping(mapping) called by the exporter's user
ValidateMapping ==
    /\ Idle
    /\ \E mapping \in Mappings :
         LET v == validate_mapping(errors, mapping) IN
         /\ errors' = v.errors
         /\ cur' = Call("validate_mapping", mapping, "")
         /\ ret' = BoolResult(v.ok, v.errors)
    /\ pc' = "idle"
    /\ UNCHANGED <<jinja_template, self_mapping, fs, writes, loaded, nonExporterVars>>

\* generate_html(mapping); an exception it raises reaches the caller
GenerateHtml ==
    /\ Idle
    /\ \E mapping \in Mappings \cup {NotADict} :
         LET g == generate_html(errors, mapping) IN
         /\ ~mapping.isdict => Len(errors) < MaxErrors
         /\ errors' = g.errors
         /\ cur' = Call("generate_html", mapping, "")
         /\ ret' = IF g.raised THEN [NoRet EXCEPT !.status = "raised"]
                   ELSE TextResult(g.text, g.errors)
    /\ pc' = "idle"
    /\ UNCHANGED <<jinja_template, self_mapping, fs, writes, loaded, nonExporterVars>>

\* export(mapping, output_path): entry and self.clear_messages()
ExportCall ==
    /\ Idle
    /\ \E mapping \in Mappings, output_path \in Paths :
         cur' = Call("export", mapping, output_path)
    /\ errors' = clear_messages
    /\ pc' = "unvalidated"
    /\ ret' = NoRet
    /\ writes' = 0
    /\ UNCHANGED <<jinja_template, self_mapping, fs, loaded, nonExporterVars>>

\* export going on to render and write whatever validate_mapping returned
ExportValidate_unchecked ==
    /\ pc = "unvalidated"
    /\ errors' = validate_mapping(errors, cur.mapping).errors
    /\ pc' = "validated"
    /\ UNCHANGED <<jinja_template, self_mapping, fs, cur, ret, writes, loaded, nonExporterVars>>

\* export: `if not self.validate_mapping(mapping): return {...}`
ExportValidate ==
    /\ pc = "unvalidated"
    /\ LET v == validate_mapping(errors, cur.mapping) IN
       /\ errors' = v.errors
       /\ IF v.ok
          THEN /\ pc' = "validated"
               /\ ret' = ret
          ELSE /\ pc' = "rejected"
               /\ ret' = ErrorResult(v.errors)
    /\ UNCHANGED <<jinja_template, self_mapping, fs, cur, writes, loaded, nonExporterVars>>

\* export: `html_content = self.export_mapping(mapping)` and the except branch
ExportRender ==
    /\ pc = "validated"
    /\ LET e == export_mapping(errors, jinja_template, self_mapping, cur.mapping) IN
       /\ self_mapping' = e.mapping
       /\ jinja_template' = e.jinja_template
       /\ IF e.raised
          THEN /\ errors' = add_error(e.errors, Err("export_failed", "", 0))
               /\ pc' = "rejected"
               /\ ret' = ErrorResult(add_error(e.errors, Err("export_failed", "", 0)))
          ELSE /\ errors' = e.errors
               /\ pc' = "rendered"
               /\ ret' = ret
    /\ UNCHANGED <<fs, cur, writes, loaded, nonExporterVars>>

\* export: `success = self.to_file(output_path)` and the two returns after it
ExportWrite ==
    /\ pc = "rendered"
    /\ LET w == to_file(errors, jinja_template, fs, cur.path) IN
       /\ errors' = w.errors
       /\ fs' = w.fs
       /\ writes' = writes + 1
       /\ IF w.ok
          THEN /\ pc' = "exported"
               /\ ret' = SuccessResult(w.errors, cur.path)
          ELSE /\ pc' = "rejected"
               /\ ret' = ErrorResult(w.errors)
    /\ UNCHANGED <<jinja_template, self_mapping, cur, loaded, nonExporterVars>>

\* export_mapping(mapping) called by the exporter's user; an exception of
\* the build reaches the caller
ExportMappingCall ==
    /\ Idle
    /\ \E mapping \in Mappings :
         LET e == export_mapping(errors, jinja_template, self_mapping, mapping) IN
         /\ errors' = e.errors
         /\ jinja_template' = e.jinja_template
         /\ self_mapping' = e.mapping
         /\ cur' = Call("export_mapping", mapping, "")
         /\ ret' = IF e.raised THEN [NoRet EXCEPT !.status = "raised"]
                   ELSE TextResult(e.text, e.errors)
    /\ pc' = "idle"
    /\ UNCHANGED <<fs, writes, loaded, nonExporterVars>>

\* to_file(filepath) called by the exporter's user
ToFileCall ==
    /\ Idle
    /\ \E filepath \in Paths :
         LET w == to_file(errors, jinja_template, fs, filepath) IN
         /\ filepath # OkPath => Len(errors) < MaxErrors
         /\ errors' = w.errors
         /\ fs' = w.fs
         /\ cur' = Call("to_file", NotADict, filepath)
         /\ ret' = BoolResult(w.ok, w.errors)
    /\ pc' = "idle"
    /\ UNCHANGED <<jinja_template, self_mapping, writes, loaded, nonExporterVars>>

----------------------------------------------------------------------------
(* JSONExporter.  exporters/json_exporter.py is imported by                *)
(* exporters/__init__.py but is not part of the sources at hand; it is     *)
(* modelled from the specification: the validation pipeline of the other   *)
(* exporters, then the mapping written to the output file as a JSON        *)
(* document.                                                               *)

\* JSON values
JNull == [j |-> "null", s |-> "", n |-> 0, items |-> <<>>]
JString(x) == [j |-> "string", s |-> x, n |-> 0, items |-> <<>>]
JNumber(k) == [j |-> "number", s |-> "", n |-> k, items |-> <<>>]
JArray(items) == [j |-> "array", s |-> "", n |-> 0, items |-> items]
JRowArray(strings) == [j |-> "array", strings |-> strings]
JRowNumber == [j |-> "number", strings |-> <<>>]

\* json.dumps on a row and on a value: list -> array, str -> string,
\* int -> number, None -> null
row_to_json(row) == IF row.sized THEN JRowArray(row.cells) ELSE JRowNumber
to_json(v) ==
    CASE v.t = "none" -> JNull
      [] v.t = "str"  -> JString(v.s)
      [] v.t = "int"  -> JNumber(v.n)
      [] v.t = "list" -> JArray([i \in DOMAIN v.rows |-> row_to_json(v.rows[i])])

\* json.loads on a row and on a value
row_from_json(jrow) == IF jrow.j = "array" THEN Row(jrow.strings) ELSE ScalarRow

\* json.loads losing the elements of every array
from_json_empty_arrays(jv) ==
    CASE jv.j = "null"   -> PyNone
      [] jv.j = "string" -> PyStr(jv.s)
      [] jv.j = "number" -> PyInt(jv.n)
      [] jv.j = "array"  -> PyList(<<>>)

from_json(jv) ==
    CASE jv.j = "null"   -> PyNone
      [] jv.j = "string" -> PyStr(jv.s)
      [] jv.j = "number" -> PyInt(jv.n)
      [] jv.j = "array"  -> PyList([i \in DOMAIN jv.items |-> row_from_json(jv.items[i])])

\* the JSON object written for a mapping, and the dict read back from it
json_dumps(mapping) ==
    [i \in DOMAIN mapping.items |->
        [k |-> mapping.items[i].k, v |-> to_json(mapping.items[i].v)]]
json_loads(members) ==
    Dict([i \in DOMAIN members |-> Item(members[i].k, from_json(members[i].v))])

\* JSONExporter.export(mapping, output_path)
JsonExport ==
    /\ Idle
    /\ \E mapping \in Mappings, output_path \in Paths :
         LET v == validate_mapping(errors, mapping)
             w == to_file(v.errors, json_dumps(mapping), fs, output_path)
         IN  /\ cur' = Call("json_export", mapping, output_path)
             /\ IF ~v.ok
                THEN /\ errors' = v.errors
                     /\ fs' = fs
                     /\ writes' = 0
                     /\ pc' = "rejected"
                     /\ ret' = ErrorResult(v.errors)
                ELSE /\ errors' = w.errors
                     /\ fs' = w.fs
                     /\ writes' = 1
                     /\ pc' = IF w.ok THEN "exported" ELSE "rejected"
                     /\ ret' = IF w.ok THEN SuccessResult(w.errors, output_path)
                               ELSE ErrorResult(w.errors)
    /\ UNCHANGED <<jinja_template, self_mapping, loaded, nonExporterVars>>

\* json.load of the file the last export wrote
JsonReload ==
    /\ cur.op = "json_export"
    /\ pc = "exported"
    /\ fs[cur.path].exists
    /\ loaded' = json_loads(fs[cur.path].data)
    /\ pc' = "reloaded"
    /\ UNCHANGED <<errors, jinja_template, self_mapping, fs, cur, ret, writes, nonExporterVars>>

----------------------------------------------------------------------------
(* TemplateGenerator *)

\* PDFElement, by the two fields the generator reads
TextElement(content) == [element_type |-> "text", content |-> content]
ImageElement(content) == [element_type |-> "image", content |-> content]

PDFElements == {TextElement("Item"), TextElement("Qty"), ImageElement("logo")}

RECURSIVE SeqsUpTo(_, _)
\* the sequences over S of length at most n
SeqsUpTo(S, n) ==
    IF n = 0 THEN {<<>>}
    ELSE LET shorter == SeqsUpTo(S, n - 1) IN
         shorter \cup {Append(q, x) : q \in shorter, x \in S}

ElementLists == SeqsUpTo(PDFElements, MaxElems)

\* None, and the empty string generate() returns when no elements are set
NoTemplate == [format |-> "None", text |-> <<>>, fields |-> <<>>]
EmptyTemplate == [format |-> "", text |-> <<>>, fields |-> <<>>]

generate_html_template ==
    [format |-> "html",
     text |-> <<"{% extends \"print_format.html\" %} ... {% for element in elements %} ... {% endblock %}">>,
     fields |-> <<>>]

EnumerateStart == 1

RECURSIVE FieldEntries(_, _)
\* the list comprehension over enumerate(self.elements, idx)
FieldEntries(elems, idx) ==
    IF elems = <<>> THEN <<>>
    ELSE LET element == Head(elems) IN
         (IF element.element_type = "text"
          THEN <<[fieldname |-> element.content, label |-> element.content,
                  fieldtype |-> "Data", idx |-> idx]>>
          ELSE <<>>)
         \o FieldEntries(Tail(elems), idx + 1)

RECURSIVE KeyedByName(_, _)
\* the entries put one by one into a dict keyed by fieldname: a later entry
\* replaces the earlier one of the same name
KeyedByName(done, entries) ==
    IF entries = <<>> THEN done
    ELSE LET e == Head(entries) IN
         IF \E i \in DOMAIN done : done[i].fieldname = e.fieldname
         THEN KeyedByName([i \in DOMAIN done |->
                              IF done[i].fieldname = e.fieldname THEN e ELSE done[i]],
                          Tail(entries))
         ELSE KeyedByName(Append(done, e), Tail(entries))

\* generate_json_template building its schema as a dict keyed by fieldname
generate_json_template_keyed(elems) ==
    [format |-> "json",
     text |-> <<"doc_type: Print Format", "name: Custom Print Format",
                "print_format_type: Jinja">>,
     fields |-> KeyedByName(<<>>, FieldEntries(elems, EnumerateStart))]

\* generate_json_template with enumerate(self.elements), which counts from 0
generate_json_template_from_zero(elems) ==
    [format |-> "json",
     text |-> <<"doc_type: Print Format", "name: Custom Print Format",
                "print_format_type: Jinja">>,
     fields |-> FieldEntries(elems, EnumerateStart - 1)]

\* generate_json_template numbering the text elements after the filter
generate_json_template_count_after_filter(elems) ==
    [format |-> "json",
     text |-> <<"doc_type: Print Format", "name: Custom Print Format",
                "print_format_type: Jinja">>,
     fields |-> FieldEntries(SelectSeq(elems, LAMBDA e : e.element_type = "text"),
                             EnumerateStart)]

\* json.dumps(template_data): the "fields" array of the JSON document
generate_json_template(elems) ==
    [format |-> "json",
     text |-> <<"doc_type: Print Format", "name: Custom Print Format",
                "print_format_type: Jinja">>,
     fields |-> FieldEntries(elems, EnumerateStart)]

generate(elems, format) ==
    IF elems = <<>> THEN EmptyTemplate
    ELSE IF format = "json" THEN generate_json_template(elems)
    ELSE generate_html_template

\* TemplateGenerator(output_format)
NewGenerator ==
    /\ \E format \in {"html", "json"} : output_format' = format
    /\ elements' = <<>>
    /\ template' = NoTemplate
    /\ UNCHANGED nonGeneratorVars

\* set_elements(elements), which returns None
SetElements ==
    /\ \E elems \in ElementLists : elements' = elems
    /\ template' = NoTemplate
    /\ UNCHANGED <<output_format, nonGeneratorVars>>

\* generate()
Generate ==
    /\ template' = generate(elements, output_format)
    /\ UNCHANGED <<elements, output_format, nonGeneratorVars>>

----------------------------------------------------------------------------
(* PDFParser.  A page is what page.get_text("dict") gives: its blocks in    *)
(* source order, or a failure to parse.  A block carries its type (0 text,  *)
(* 1 image), its bbox and its lines of spans; a span its text and size.    *)
(* The documents below number the blocks of a page by their bbox and the   *)
(* spans of a block by their size, both in source order.                   *)

Span(text, size) == [text |-> text, size |-> size]
TextBlock(bbox, lines) == [type |-> 0, bbox |-> bbox, lines |-> lines]
ImageBlock(bbox) == [type |-> 1, bbox |-> bbox, lines |-> <<>>]
Page(blocks) == [ok |-> TRUE, blocks |-> blocks]
CorruptPage == [ok |-> FALSE, blocks |-> <<>>]

PageA ==
    Page(<<TextBlock(1, << <<Span("Item", 1), Span("Qty", 2)>>, <<Span("Rate", 3)>> >>),
           ImageBlock(2),
           TextBlock(3, << <<Span("Total", 1)>> >>)>>)
PageB ==
    Page(<<ImageBlock(1), TextBlock(2, << <<Span("Item", 1)>> >>)>>)
PageEmpty == Page(<<>>)

PdfPages == {PageA, PageB, PageEmpty, CorruptPage}
PdfDocuments == SeqsUpTo(PdfPages, MaxPages) \ {<<>>}

\* PDFElement as the parser fills it; font_size 0 stands for None
PDFElement(element_type, content, page, bbox, font_size) ==
    [element_type |-> element_type, content |-> content, page_num |-> page,
     bbox |-> bbox, font_size |-> font_size]

RECURSIVE extract_spans(_, _, _, _)
\* the inner loop of _extract_text_block over the spans of one line
extract_spans(elems, spans, bbox, page) ==
    IF spans = <<>> THEN elems
    ELSE extract_spans(
             Append(elems, PDFElement("text", Head(spans).text, page, bbox, Head(spans).size)),
             Tail(spans), bbox, page)

RECURSIVE extract_lines(_, _, _, _)
\* the outer loop of _extract_text_block over the lines of the block
extract_lines(elems, lines, bbox, page) ==
    IF lines = <<>> THEN elems
    ELSE extract_lines(extract_spans(elems, Head(lines), bbox, page),
                       Tail(lines), bbox, page)

extract_text_block(elems, block, page) ==
    extract_lines(elems, block.lines, block.bbox, page)

\* _extract_image_block putting its element at the front of the list
extract_image_block_at_front(elems, block, page) ==
    <<PDFElement("image", "[Image]", page, block.bbox, 0)>> \o elems

extract_image_block(elems, block, page) ==
    Append(elems, PDFElement("image", "[Image]", page, block.bbox, 0))

RECURSIVE parse_blocks(_, _, _)
\* the loop of _parse_page over the blocks of the page
parse_blocks(elems, blocks, page) ==
    IF blocks = <<>> THEN elems
    ELSE LET block == Head(blocks) IN
         parse_blocks(
             IF block.type = 0 THEN extract_text_block(elems, block, page)
             ELSE IF block.type = 1 THEN extract_image_block(elems, block, page)
             ELSE elems,
             Tail(blocks), page)

NoParse == [status |-> "none", elements |-> <<>>]
Returned(elems) == [status |-> "returned", elements |-> elems]
Raised == [status |-> "raised", elements |-> <<>>]

\* PDFParser(pdf_path) for a file that exists
NewParser ==
    /\ p_pc = "idle"
    /\ \E d \in PdfDocuments : pdf' = d
    /\ document' = "None"
    /\ p_elements' = <<>>
    /\ page_num' = 0
    /\ visited' = <<>>
    /\ p_ret' = NoParse
    /\ p_prev' = NoParse
    /\ UNCHANGED <<p_pc, nonParserVars>>

\* open(), also through __enter__
Open ==
    /\ p_pc = "idle"
    /\ document' = "open"
    /\ UNCHANGED <<pdf, p_elements, p_pc, page_num, visited, p_ret, p_prev, nonParserVars>>

\* close(), also through __exit__
Close ==
    /\ p_pc = "idle"
    /\ document = "open"
    /\ document' = "closed"
    /\ UNCHANGED <<pdf, p_elements, p_pc, page_num, visited, p_ret, p_prev, nonParserVars>>

\* parse_all_pages without `self.elements = []`
ParseBegin_keep_elements ==
    /\ p_pc = "idle"
    /\ document \in {"None", "open"}
    /\ document' = "open"
    /\ page_num' = 0
    /\ visited' = <<>>
    /\ p_pc' = "parsing"
    /\ p_prev' = IF p_ret.status = "returned" THEN p_ret ELSE p_prev
    /\ p_ret' = NoParse
    /\ UNCHANGED <<pdf, p_elements, nonParserVars>>

\* parse_all_pages: `if not self.document: self.open()` and `self.elements = []`.
\* The caller keeps the list the call before returned.
ParseBegin ==
    /\ p_pc = "idle"
    /\ document \in {"None", "open"}
    /\ document' = "open"
    /\ p_elements' = <<>>
    /\ page_num' = 0
    /\ visited' = <<>>
    /\ p_pc' = "parsing"
    /\ p_prev' = IF p_ret.status = "returned" THEN p_ret ELSE p_prev
    /\ p_ret' = NoParse
    /\ UNCHANGED <<pdf, nonParserVars>>

\* parse_all_pages on a parser that was closed: the closed document raises,
\* in the truth test of line 84 or at page_count in line 88
ParseClosed ==
    /\ p_pc = "idle"
    /\ document = "closed"
    /\ \/ p_elements' = p_elements
       \/ p_elements' = <<>>
    /\ p_prev' = IF p_ret.status = "returned" THEN p_ret ELSE p_prev
    /\ p_ret' = Raised
    /\ visited' = <<>>
    /\ UNCHANGED <<pdf, document, p_pc, page_num, nonParserVars>>

\* one iteration of the loop of parse_all_pages: _parse_page(page_num)
ParsePage ==
    /\ p_pc = "parsing"
    /\ page_num < Len(pdf)
    /\ visited' = Append(visited, page_num)
    /\ IF pdf[page_num + 1].ok
       THEN /\ p_elements' = parse_blocks(p_elements, pdf[page_num + 1].blocks, page_num)
            /\ page_num' = page_num + 1
            /\ UNCHANGED <<p_pc, p_ret>>
       ELSE /\ p_pc' = "idle"
            /\ p_ret' = Raised
            /\ UNCHANGED <<p_elements, page_num>>
    /\ UNCHANGED <<pdf, document, p_prev, nonParserVars>>

\* parse_all_pages: `return self.elements`
ParseReturn ==
    /\ p_pc = "parsing"
    /\ page_num = Len(pdf)
    /\ p_pc' = "idle"
    /\ p_ret' = Returned(p_elements)
    /\ UNCHANGED <<pdf, document, p_elements, page_num, visited, p_prev, nonParserVars>>

InitParser ==
    /\ pdf = <<PageA>>
    /\ document = "None"
    /\ p_elements = <<>>
    /\ p_pc = "idle"
    /\ page_num = 0
    /\ visited = <<>>
    /\ p_ret = NoParse
    /\ p_prev = NoParse

NextParser ==
    \/ NewParser
    \/ Open
    \/ Close
    \/ ParseBegin
    \/ ParseClosed
    \/ ParsePage
    \/ ParseReturn

----------------------------------------------------------------------------
(* BatchProcessor.process_document_type.  A document is its name and what  *)
(* _process_single_document does for it: it returns ("ok"), or get_print   *)
(* or get_pdf raises.                                                      *)

Doc(name, outcome) == [name |-> name, outcome |-> outcome]
DocOutcomes == {"ok", "get_print raised", "get_pdf raised"}
DocName(i) == [k \in 1..4 |-> <<"DOC-1", "DOC-2", "DOC-3", "DOC-4">>[k]][i]

\* the lists of n documents DOC-1..DOC-n, with every choice of outcomes
DocLists ==
    UNION {{[i \in 1..n |-> Doc(DocName(i), o[i])] : o \in [1..n -> DocOutcomes]}
           : n \in 0..MaxDocs}

NewResults(doctype) ==
    [doctype |-> doctype, processed |-> 0, success |-> 0, failed |-> 0, errors |-> <<>>]

\* the body of the loop for one document
process_one(results, doc) ==
    IF doc.outcome = "ok"
    THEN [results EXCEPT !.processed = @ + 1, !.success = @ + 1]
    ELSE [results EXCEPT !.processed = @ + 1, !.failed = @ + 1,
                         !.errors = Append(@, [name |-> doc.name, error |-> doc.outcome])]

\* process_document_type(doctype) up to the loop
ProcessBegin ==
    /\ b_pc \in {"idle", "returned"}
    /\ \E doctype \in {"COA AMB", "Sales Invoice"}, docs \in DocLists :
         /\ b_doctype' = doctype
         /\ b_docs' = docs
         /\ b_results' = NewResults(doctype)
    /\ b_next' = 1
    /\ b_pc' = "loop"
    /\ UNCHANGED nonBatchVars

\* one iteration, with an exception ending the loop
ProcessOne_stop_at_exception ==
    /\ b_pc = "loop"
    /\ b_next <= Len(b_docs)
    /\ b_results' = process_one(b_results, b_docs[b_next])
    /\ b_next' = IF b_docs[b_next].outcome = "ok" THEN b_next + 1 ELSE Len(b_docs) + 1
    /\ UNCHANGED <<b_doctype, b_docs, b_pc, nonBatchVars>>

\* one iteration of `for doc in docs`
ProcessOne ==
    /\ b_pc = "loop"
    /\ b_next <= Len(b_docs)
    /\ b_results' = process_one(b_results, b_docs[b_next])
    /\ b_next' = b_next + 1
    /\ UNCHANGED <<b_doctype, b_docs, b_pc, nonBatchVars>>

\* `return results`
ProcessReturn ==
    /\ b_pc = "loop"
    /\ b_next > Len(b_docs)
    /\ b_pc' = "returned"
    /\ UNCHANGED <<b_doctype, b_docs, b_results, b_next, nonBatchVars>>

InitBatch ==
    /\ b_doctype = ""
    /\ b_docs = <<>>
    /\ b_results = NewResults("")
    /\ b_next = 1
    /\ b_pc = "idle"

NextBatch ==
    \/ ProcessBegin
    \/ ProcessOne
    \/ ProcessReturn

----------------------------------------------------------------------------
(* scripts/06_api_upload.py.  A print format of the formats file is its    *)
(* name and the answer its POST gets: a status code, a timeout, a request  *)
(* error, or status 200 with a body response.json() cannot decode.  Every   *)
(* entry of the file is a JSON object, the Dict upload_print_format takes. *)

Format(name, answer) == [name |-> name, answer |-> answer]
Answers == {"200", "201", "500", "timeout", "request error", "200 undecodable"}
FormatName(i) == <<"PF-1", "PF-2", "PF-3", "PF-4">>[i]

FormatLists ==
    UNION {{[i \in 1..n |-> Format(FormatName(i), a[i])] : a \in [1..n -> Answers]}
           : n \in 0..MaxFormats}

\* the formats file: missing, not JSON, a JSON array of formats, or a single
\* JSON object
FormatsFiles ==
    {[kind |-> "missing", formats |-> <<>>], [kind |-> "invalid json", formats |-> <<>>]}
    \cup {[kind |-> "array", formats |-> fl] : fl \in FormatLists}
    \cup {[kind |-> "object", formats |-> <<Format(FormatName(1), a)>>] : a \in Answers}

\* the credentials file: missing, not JSON, without an entry for the chosen
\* environment, with an entry that lacks a key, or complete
CredentialsFiles == {"missing", "invalid json", "no environment", "incomplete", "ok"}

\* an entry of stats["errors"]: {"format": name, ...} or {"file": path, ...}
ErrorRecord(key, name) == [key |-> key, name |-> name]

NewStats == [total |-> 0, success |-> 0, failed |-> 0, errors |-> <<>>]

\* upload_print_format: one requests.post, and (success, message)
upload_print_format(print_format_data) ==
    [posts |-> <<print_format_data.name>>,
     success |-> print_format_data.answer \in {"200", "201"}]

\* upload_print_format posting again after a timeout
upload_and_count_with_retry(stats, posts, format_data) ==
    LET first == upload_print_format(format_data)
        again == format_data.answer = "timeout"
    IN  [posts |-> posts \o first.posts \o (IF again THEN first.posts ELSE <<>>),
         stats |-> IF first.success
                   THEN [stats EXCEPT !.success = @ + 1]
                   ELSE [stats EXCEPT !.failed = @ + 1,
                            !.errors = Append(@, ErrorRecord("format", format_data.name))]]

\* the body of the loop of batch_upload for one format
upload_and_count(stats, posts, format_data) ==
    LET up == upload_print_format(format_data) IN
    [posts |-> posts \o up.posts,
     stats |-> IF up.success
               THEN [stats EXCEPT !.success = @ + 1]
               ELSE [stats EXCEPT !.failed = @ + 1,
                        !.errors = Append(@, ErrorRecord("format", format_data.name))]]

\* main(): load_credentials, the environment entry, the client
MainStart ==
    /\ u_pc \in {"idle", "exited"}
    /\ \E creds \in CredentialsFiles, file \in FormatsFiles :
         /\ u_creds' = creds
         /\ u_file' = file
         /\ IF creds = "ok"
            THEN u_pc' = "batch_upload" /\ u_exit' = -1
            ELSE u_pc' = "exited" /\ u_exit' = 1
    /\ u_formats' = <<>>
    /\ u_stats' = NewStats
    /\ u_next' = 1
    /\ u_posts' = <<>>
    /\ UNCHANGED nonUploadVars

\* batch_upload: stats, reading the file, and the three except branches
BatchOpen ==
    /\ u_pc = "batch_upload"
    /\ IF u_file.kind \in {"missing", "invalid json"}
       THEN /\ u_stats' = [NewStats EXCEPT !.errors = <<ErrorRecord("file", "formats_file")>>]
            /\ u_formats' = <<>>
            /\ u_pc' = "returned"
       ELSE /\ u_formats' = u_file.formats
            /\ u_stats' = [NewStats EXCEPT !.total = Len(u_file.formats)]
            /\ u_pc' = "uploading"
    /\ u_next' = 1
    /\ UNCHANGED <<u_creds, u_file, u_posts, u_exit, nonUploadVars>>

\* batch_upload: one iteration of the loop over the formats
UploadOne ==
    /\ u_pc = "uploading"
    /\ u_next <= Len(u_formats)
    /\ LET r == upload_and_count(u_stats, u_posts, u_formats[u_next]) IN
       /\ u_stats' = r.stats
       /\ u_posts' = r.posts
    /\ u_next' = u_next + 1
    /\ UNCHANGED <<u_creds, u_file, u_formats, u_pc, u_exit, nonUploadVars>>

\* batch_upload: `return stats` after the loop
BatchReturn ==
    /\ u_pc = "uploading"
    /\ u_next > Len(u_formats)
    /\ u_pc' = "returned"
    /\ UNCHANGED <<u_creds, u_file, u_formats, u_stats, u_next, u_posts, u_exit, nonUploadVars>>

\* main(): sys.exit(0 if stats["failed"] == 0 else 1)
MainExit ==
    /\ u_pc = "returned"
    /\ u_exit' = IF u_stats.failed = 0 THEN 0 ELSE 1
    /\ u_pc' = "exited"
    /\ UNCHANGED <<u_creds, u_file, u_formats, u_stats, u_next, u_posts, nonUploadVars>>

InitUpload ==
    /\ u_creds = "ok"
    /\ u_file = [kind |-> "missing", formats |-> <<>>]
    /\ u_formats = <<>>
    /\ u_stats = NewStats
    /\ u_next = 1
    /\ u_posts = <<>>
    /\ u_pc = "idle"
    /\ u_exit = -1

NextUpload ==
    \/ MainStart
    \/ BatchOpen
    \/ UploadOne
    \/ BatchReturn
    \/ MainExit

----------------------------------------------------------------------------
(* amb_print/tasks.py: the scheduled migration job.  The job record is the *)
(* committed state of the single "Print Migration Job"; a save followed by *)
(* frappe.db.commit() is one step.  Any frappe call may raise.             *)

\* the status enum of the job doctype
JobStatuses == {"Queued", "Running", "Completed", "Failed"}

\* hooks.py: background_workers of the print_migration queue
Workers == 1..2

JobRecord(status, progress, last_run) ==
    [status |-> status, progress |-> progress, last_run |-> last_run]

\* positions inside run_migration_job
InRun == {"run", "try", "loop", "except"}

\* total = len(doc_types) if doc_types else 1
total(doc_types) == IF doc_types # 0 THEN doc_types ELSE 1

\* (idx / total) * 100, to the whole percent
progress_at(idx, doc_types) == (idx * 100) \div total(doc_types)

\* an invocation may begin while every worker in flight can still take its
\* own timestamp
ClockAllows == j_clock + Cardinality({w \in Workers : w_pc[w] # "idle"}) < MaxRuns

\* scheduled_batch_migration, line 9: job_doc = frappe.get_single(...)
SchedRead(w) ==
    /\ w_pc[w] = "idle"
    /\ ClockAllows
    /\ w_pc' = [w_pc EXCEPT ![w] = "checked"]
    /\ w_seen' = [w_seen EXCEPT ![w] = job.status]
    /\ w_out' = [w_out EXCEPT ![w] = "none"]
    /\ UNCHANGED <<job, j_logs, j_clock, w_doc_types, w_idx, w_logs, nonJobVars>>

\* scheduled_batch_migration calling run_migration_job whatever it read
SchedGuard_unguarded(w) ==
    /\ w_pc[w] = "checked"
    /\ w_pc' = [w_pc EXCEPT ![w] = "run"]
    /\ UNCHANGED <<job, j_logs, j_clock, w_seen, w_doc_types, w_idx, w_logs, w_out, nonJobVars>>

\* scheduled_batch_migration with the test the other way round
SchedGuard_inverted(w) ==
    /\ w_pc[w] = "checked"
    /\ IF w_seen[w] # "Running"
       THEN /\ w_pc' = [w_pc EXCEPT ![w] = "idle"]
            /\ w_out' = [w_out EXCEPT ![w] = "skipped"]
            /\ w_seen' = [w_seen EXCEPT ![w] = "none"]
       ELSE /\ w_pc' = [w_pc EXCEPT ![w] = "run"]
            /\ UNCHANGED <<w_out, w_seen>>
    /\ UNCHANGED <<job, j_logs, j_clock, w_doc_types, w_idx, w_logs, nonJobVars>>

\* scheduled_batch_migration, lines 11-15: log_error and return, or the call
\* of run_migration_job
SchedGuard(w) ==
    /\ w_pc[w] = "checked"
    /\ IF w_seen[w] = "Running"
       THEN /\ w_pc' = [w_pc EXCEPT ![w] = "idle"]
            /\ w_out' = [w_out EXCEPT ![w] = "skipped"]
            /\ w_seen' = [w_seen EXCEPT ![w] = "none"]
       ELSE /\ w_pc' = [w_pc EXCEPT ![w] = "run"]
            /\ UNCHANGED <<w_out, w_seen>>
    /\ UNCHANGED <<job, j_logs, j_clock, w_doc_types, w_idx, w_logs, nonJobVars>>

\* trigger_migration: the queue worker executes run_migration_job, with no
\* check of the status
Trigger(w) ==
    /\ w_pc[w] = "idle"
    /\ ClockAllows
    /\ w_pc' = [w_pc EXCEPT ![w] = "run"]
    /\ w_seen' = [w_seen EXCEPT ![w] = "none"]
    /\ w_out' = [w_out EXCEPT ![w] = "none"]
    /\ UNCHANGED <<job, j_logs, j_clock, w_doc_types, w_idx, w_logs, nonJobVars>>

\* run_migration_job returning at once when the status is Running
RunStart_skip_when_running(w) ==
    /\ w_pc[w] = "run"
    /\ IF job.status = "Running"
       THEN /\ w_pc' = [w_pc EXCEPT ![w] = "idle"]
            /\ w_out' = [w_out EXCEPT ![w] = "skipped"]
            /\ w_seen' = [w_seen EXCEPT ![w] = "none"]
            /\ UNCHANGED <<job, j_clock>>
       ELSE /\ job' = JobRecord("Running", 0, j_clock + 1)
            /\ j_clock' = j_clock + 1
            /\ w_pc' = [w_pc EXCEPT ![w] = "try"]
            /\ UNCHANGED <<w_out, w_seen>>
    /\ UNCHANGED <<j_logs, w_doc_types, w_idx, w_logs, nonJobVars>>

\* run_migration_job, lines 20-25; a raising save leaves the function
RunStart(w) ==
    /\ w_pc[w] = "run"
    /\ \E raised \in BOOLEAN :
         IF raised
         THEN /\ w_pc' = [w_pc EXCEPT ![w] = "idle"]
              /\ w_out' = [w_out EXCEPT ![w] = "raised"]
              /\ w_seen' = [w_seen EXCEPT ![w] = "none"]
              /\ UNCHANGED <<job, j_clock>>
         ELSE /\ job' = JobRecord("Running", 0, j_clock + 1)
              /\ j_clock' = j_clock + 1
              /\ w_pc' = [w_pc EXCEPT ![w] = "try"]
              /\ UNCHANGED <<w_out, w_seen>>
    /\ UNCHANGED <<j_logs, w_doc_types, w_idx, w_logs, nonJobVars>>

\* run_migration_job, lines 28-43: imports, site config, api, doc_types
RunSetup(w) ==
    /\ w_pc[w] = "try"
    /\ \E raised \in BOOLEAN :
         w_pc' = [w_pc EXCEPT ![w] = IF raised THEN "except" ELSE "loop"]
    /\ \E doc_types \in 0..MaxDocTypes :
         w_doc_types' = [w_doc_types EXCEPT ![w] = doc_types]
    /\ w_idx' = [w_idx EXCEPT ![w] = 0]
    /\ w_logs' = [w_logs EXCEPT ![w] = <<>>]
    /\ UNCHANGED <<job, j_logs, j_clock, w_seen, w_out, nonJobVars>>

\* what one iteration of the loop comes to: a log with status Success; a log
\* with status Failed, after process_document_type or the Success log raised;
\* an exception of reload / save; or an exception of the Failed log
IterationOutcomes == {"Success", "Failed", "save raised", "log raised"}

\* the loop leaving for the except branch when a document type fails
RunIteration_stop_at_failure(w) ==
    /\ w_pc[w] = "loop"
    /\ w_idx[w] < w_doc_types[w]
    /\ \E outcome \in IterationOutcomes :
         /\ job' = IF outcome = "save raised" THEN job
                   ELSE [job EXCEPT !.progress = progress_at(w_idx[w], w_doc_types[w])]
         /\ j_logs' = IF outcome \in {"Success", "Failed"} THEN j_logs + 1 ELSE j_logs
         /\ w_logs' = IF outcome \in {"Success", "Failed"}
                      THEN [w_logs EXCEPT ![w] = Append(@, outcome)] ELSE w_logs
         /\ IF outcome = "Success"
            THEN w_idx' = [w_idx EXCEPT ![w] = @ + 1] /\ UNCHANGED w_pc
            ELSE w_idx' = [w_idx EXCEPT ![w] = 0] /\ w_pc' = [w_pc EXCEPT ![w] = "except"]
    /\ UNCHANGED <<j_clock, w_seen, w_doc_types, w_out, nonJobVars>>

\* run_migration_job, lines 45-65: one iteration
RunIteration(w) ==
    /\ w_pc[w] = "loop"
    /\ w_idx[w] < w_doc_types[w]
    /\ \E outcome \in IterationOutcomes :
         /\ job' = IF outcome = "save raised" THEN job
                   ELSE [job EXCEPT !.progress = progress_at(w_idx[w], w_doc_types[w])]
         /\ j_logs' = IF outcome \in {"Success", "Failed"} THEN j_logs + 1 ELSE j_logs
         /\ w_logs' = IF outcome \in {"Success", "Failed"}
                      THEN [w_logs EXCEPT ![w] = Append(@, outcome)] ELSE w_logs
         /\ IF outcome \in {"Success", "Failed"}
            THEN w_idx' = [w_idx EXCEPT ![w] = @ + 1] /\ UNCHANGED w_pc
            ELSE w_idx' = [w_idx EXCEPT ![w] = 0] /\ w_pc' = [w_pc EXCEPT ![w] = "except"]
    /\ UNCHANGED <<j_clock, w_seen, w_doc_types, w_out, nonJobVars>>

\* run_migration_job, lines 67-70 and 78; a raising reload or save goes to
\* the except branch
RunComplete(w) ==
    /\ w_pc[w] = "loop"
    /\ w_idx[w] >= w_doc_types[w]
    /\ \E raised \in BOOLEAN :
         IF raised
         THEN /\ w_pc' = [w_pc EXCEPT ![w] = "except"]
              /\ UNCHANGED <<job, w_out, w_seen>>
         ELSE /\ job' = [job EXCEPT !.status = "Completed", !.progress = 100]
              /\ w_out' = [w_out EXCEPT ![w] = "completed"]
              /\ w_pc' = [w_pc EXCEPT ![w] = "idle"]
              /\ w_seen' = [w_seen EXCEPT ![w] = "none"]
    /\ w_idx' = [w_idx EXCEPT ![w] = 0]
    /\ UNCHANGED <<j_logs, j_clock, w_doc_types, w_logs, nonJobVars>>

\* run_migration_job ending Completed although an exception reached the
\* except branch
RunFail_completed(w) ==
    /\ w_pc[w] = "except"
    /\ job' = [job EXCEPT !.status = "Completed", !.progress = 100]
    /\ w_out' = [w_out EXCEPT ![w] = "failed"]
    /\ w_pc' = [w_pc EXCEPT ![w] = "idle"]
    /\ w_seen' = [w_seen EXCEPT ![w] = "none"]
    /\ UNCHANGED <<j_logs, j_clock, w_doc_types, w_idx, w_logs, nonJobVars>>

\* run_migration_job, lines 72-78; a raising reload or save leaves the
\* function with the record as it was
RunFail(w) ==
    /\ w_pc[w] = "except"
    /\ \E raised \in BOOLEAN :
         /\ job' = IF raised THEN job ELSE [job EXCEPT !.status = "Failed"]
         /\ w_out' = [w_out EXCEPT ![w] = IF raised THEN "raised" ELSE "failed"]
    /\ w_pc' = [w_pc EXCEPT ![w] = "idle"]
    /\ w_seen' = [w_seen EXCEPT ![w] = "none"]
    /\ UNCHANGED <<j_logs, j_clock, w_doc_types, w_idx, w_logs, nonJobVars>>

InitJob ==
    /\ job = JobRecord("Queued", 0, 0)
    /\ j_logs = 0
    /\ j_clock = 0
    /\ w_pc = [w \in Workers |-> "idle"]
    /\ w_seen = [w \in Workers |-> "none"]
    /\ w_doc_types = [w \in Workers |-> 0]
    /\ w_idx = [w \in Workers |-> 0]
    /\ w_logs = [w \in Workers |-> <<>>]
    /\ w_out = [w \in Workers |-> "none"]

NextJob ==
    \E w \in Workers :
        \/ SchedRead(w)
        \/ SchedGuard(w)
        \/ Trigger(w)
        \/ RunStart(w)
        \/ RunSetup(w)
        \/ RunIteration(w)
        \/ RunComplete(w)
        \/ RunFail(w)

----------------------------------------------------------------------------
(* scripts/08_phase4_orchestrator.py *)

\* verify_setup: the config file and the three scripts exist
verify_setup(setup) == setup.config /\ setup.scripts

Setups == [config : BOOLEAN, scripts : BOOLEAN]

\* --formats-file: absent (None), the empty string, or a path
FmtFiles == {"None", "", "formats.json"}
PyTruthy(fmt_file) == fmt_file \notin {"None", ""}

\* how a subprocess.run ends: return code 0, another return code, or an
\* exception (TimeoutExpired, OSError)
SubprocessEnds == {"0", "1", "raised"}
stage_result(subprocess_end) == subprocess_end = "0"

\* data/field_mappings: missing, or its *.json files
MappingFiles == {"valid", "missing fields", "not json"}
OutputDirs ==
    {[exists |-> FALSE, json_files |-> <<>>]}
    \cup {[exists |-> TRUE, json_files |-> fl] : fl \in SeqsUpTo(MappingFiles, MaxFiles)}

\* validate_outputs: every file loads and has doc_type, name and html, and
\* there is at least one file
validate_outputs(output_dir) ==
    IF ~output_dir.exists THEN FALSE
    ELSE LET json_files == output_dir.json_files
             valid == Len(SelectSeq(json_files, LAMBDA jf : jf = "valid"))
         IN  IF json_files # <<>> THEN valid = Len(json_files) ELSE FALSE

\* results[stage], a missing key reads as FALSE
ResultOf(results, stage) ==
    \E i \in DOMAIN results : results[i][1] = stage /\ results[i][2]

\* all(results.values())
all_values(results) == \A i \in DOMAIN results : results[i][2]

\* the upload condition without the results of the earlier stages
upload_wanted_any_results(fmt_file, results) == PyTruthy(fmt_file)

\* execute: fmt_file and results['migration'] and results['validation']
upload_wanted(fmt_file, results) ==
    PyTruthy(fmt_file) /\ ResultOf(results, "migration") /\ ResultOf(results, "validation")

\* main() up to execute, and verify_setup; execute returns False at once when
\* it fails
OrchStart ==
    /\ o_pc \in {"idle", "exited"}
    /\ \E setup \in Setups, fmt_file \in FmtFiles :
         /\ o_setup' = setup
         /\ o_fmt_file' = fmt_file
         /\ IF verify_setup(setup)
            THEN o_pc' = "migration" /\ o_exit' = -1
            ELSE o_pc' = "exited" /\ o_exit' = 1
    /\ o_results' = <<>>
    /\ o_stages' = <<>>
    /\ UNCHANGED <<o_output_dir, nonOrchVars>>

\* results['migration'] = self.run_batch_migration(); the subprocess leaves
\* data/field_mappings in some state
RunBatchMigration ==
    /\ o_pc = "migration"
    /\ \E end \in SubprocessEnds, output_dir \in OutputDirs :
         /\ o_results' = Append(o_results, <<"migration", stage_result(end)>>)
         /\ o_output_dir' = output_dir
    /\ o_stages' = Append(o_stages, "migration")
    /\ o_pc' = "validation"
    /\ UNCHANGED <<o_setup, o_fmt_file, o_exit, nonOrchVars>>

\* results['validation'] = self.validate_outputs(), and the test for upload
ValidateOutputs ==
    /\ o_pc = "validation"
    /\ LET results == Append(o_results, <<"validation", validate_outputs(o_output_dir)>>) IN
         /\ o_results' = results
         /\ o_pc' = IF upload_wanted(o_fmt_file, results) THEN "upload" ELSE "report"
    /\ o_stages' = Append(o_stages, "validation")
    /\ UNCHANGED <<o_setup, o_fmt_file, o_output_dir, o_exit, nonOrchVars>>

\* results['upload'] = self.upload_to_sandbox(fmt_file, env)
UploadToSandbox ==
    /\ o_pc = "upload"
    /\ \E end \in SubprocessEnds :
         o_results' = Append(o_results, <<"upload", stage_result(end)>>)
    /\ o_stages' = Append(o_stages, "upload")
    /\ o_pc' = "report"
    /\ UNCHANGED <<o_setup, o_fmt_file, o_output_dir, o_exit, nonOrchVars>>

\* return all(results.values()), and sys.exit in main()
OrchExit ==
    /\ o_pc = "report"
    /\ o_exit' = IF all_values(o_results) THEN 0 ELSE 1
    /\ o_pc' = "exited"
    /\ UNCHANGED <<o_setup, o_fmt_file, o_output_dir, o_results, o_stages, nonOrchVars>>

InitOrch ==
    /\ o_setup = [config |-> TRUE, scripts |-> TRUE]
    /\ o_fmt_file = "None"
    /\ o_output_dir = [exists |-> FALSE, json_files |-> <<>>]
    /\ o_results = <<>>
    /\ o_stages = <<>>
    /\ o_pc = "idle"
    /\ o_exit = -1

NextOrch ==
    \/ OrchStart
    \/ RunBatchMigration
    \/ ValidateOutputs
    \/ UploadToSandbox
    \/ OrchExit

----------------------------------------------------------------------------
(* BaseExporter.set_metadata and get_export_info.  A metadata dict is a     *)
(* function from the keys to a value, Absent for a key it does not hold.    *)

Absent == "<absent>"
KwargKeys == {"export_version", "timestamp"}
MetadataKeys == {"doctype", "document_name", "export_time"} \cup KwargKeys
Now == {"t1", "t2"}        \* datetime.now().isoformat()

\* **kwargs: any of the keyword keys, each with a value
Kwargs == [KwargKeys -> {"1.0", "2024-01-01T00:00:00", Absent}]

EmptyMetadata == [k \in MetadataKeys |-> Absent]

\* self.metadata = {'doctype': ..., 'document_name': ..., 'export_time': ..., **kwargs}
set_metadata(old, doctype, document_name, now, kwargs) ==
    [k \in MetadataKeys |->
        CASE k = "doctype" -> doctype
          [] k = "document_name" -> document_name
          [] k = "export_time" -> now
          [] OTHER -> kwargs[k]]

\* set_metadata(doctype, document_name, **kwargs); the unit test hands the
\* key "export_version" and the value "1.0" as its two positional arguments
SetMetadata ==
    /\ \E doctype \in {"Print Format", "export_version"}, document_name \in {"Invoice", "1.0"},
          now \in Now, kwargs \in Kwargs :
         metadata' = set_metadata(metadata, doctype, document_name, now, kwargs)
    /\ UNCHANGED <<export_info, nonMetadataVars>>

\* get_export_info()
GetExportInfo ==
    /\ \E now \in Now :
         export_info' = [success |-> Len(errors) = 0, metadata |-> metadata, timestamp |-> now]
    /\ UNCHANGED <<metadata, nonMetadataVars>>

InitMetadata ==
    /\ metadata = EmptyMetadata
    /\ export_info = [success |-> FALSE, metadata |-> EmptyMetadata, timestamp |-> Absent]

NextMetadata ==
    \/ SetMetadata
    \/ GetExportInfo

----------------------------------------------------------------------------
(* scripts/09_task_manager.py *)

\* the keys of SCRIPTS, in the order run_full_pipeline takes them
SCRIPTS == <<"debug", "upload", "orchestrator">>
IsScript(script_name) == \E i \in DOMAIN SCRIPTS : SCRIPTS[i] = script_name

\* how the attempt to run a script file ends: the file is missing, the
\* process exits with 0 or with another code, subprocess.run times out or
\* raises
ScriptEnds == {"missing", "0", "1", "timeout", "raised"}

\* the dict run_script returns; return_code "none" when it has no such key
Output(script, status, return_code) ==
    [script |-> script, status |-> status, return_code |-> return_code]
NoOutput == Output("none", "none", "none")

\* run_script counting a timeout as a failure
run_script_count_timeout(history, successes, failures, script_name, end) ==
    IF ~IsScript(script_name) \/ end \in {"missing", "raised"}
    THEN [output |-> Output("none", "error", "none"), task_history |-> history,
          success_count |-> successes, failure_count |-> failures]
    ELSE IF end = "timeout"
    THEN [output |-> Output("none", "error", "none"), task_history |-> history,
          success_count |-> successes, failure_count |-> failures + 1]
    ELSE LET output == Output(script_name, IF end = "0" THEN "success" ELSE "error", end) IN
         [output |-> output, task_history |-> Append(history, output),
          success_count |-> IF end = "0" THEN successes + 1 ELSE successes,
          failure_count |-> IF end = "0" THEN failures ELSE failures + 1]

\* run_script: what it returns, and the manager's fields afterwards
run_script(history, successes, failures, script_name, end) ==
    IF ~IsScript(script_name) \/ end \in {"missing", "timeout", "raised"}
    THEN [output |-> Output("none", "error", "none"), task_history |-> history,
          success_count |-> successes, failure_count |-> failures]
    ELSE LET output == Output(script_name, IF end = "0" THEN "success" ELSE "error", end) IN
         [output |-> output, task_history |-> Append(history, output),
          success_count |-> IF end = "0" THEN successes + 1 ELSE successes,
          failure_count |-> IF end = "0" THEN failures ELSE failures + 1]

\* run_full_pipeline giving up after a stage with status error
after_stage_stop_at_error(stage, output) ==
    IF output.status = "error" \/ stage = Len(SCRIPTS) THEN "summary" ELSE "stage"

\* run_full_pipeline: what follows the stage-th stage
after_stage(stage, output) == IF stage = Len(SCRIPTS) THEN "summary" ELSE "stage"

NoSummary == [total_tasks |-> 0, successful |-> 0, failed |-> 0]

\* main(): manager = TaskManager(), and the dispatch on sys.argv
TaskMain ==
    /\ t_pc \in {"idle", "exited"}
    /\ \E command \in {"none", "debug", "upload", "orchestrator", "pipeline", "bogus"} :
         /\ t_command' = command
         /\ t_pc' = CASE command = "none" -> "menu"
                      [] command = "pipeline" -> "stage"
                      [] command = "bogus" -> "exited"
                      [] OTHER -> "command"
         /\ t_exit' = IF command = "bogus" THEN 1 ELSE -1
    /\ task_history' = <<>>
    /\ success_count' = 0
    /\ failure_count' = 0
    /\ t_stages' = <<>>
    /\ t_summary' = NoSummary
    /\ t_last' = NoOutput
    /\ UNCHANGED nonTaskVars

\* main(): manager.run_debug() / run_upload() / run_orchestrator(), and the
\* end of main
TaskCommand ==
    /\ t_pc = "command"
    /\ \E end \in ScriptEnds :
         LET r == run_script(task_history, success_count, failure_count, t_command, end) IN
         /\ t_last' = r.output
         /\ task_history' = r.task_history
         /\ success_count' = r.success_count
         /\ failure_count' = r.failure_count
    /\ t_pc' = "exited"
    /\ t_exit' = 0
    /\ UNCHANGED <<t_command, t_stages, t_summary, nonTaskVars>>

\* run_script(script_name) on a manager at rest: menu choices 1-3, or a call
\* by a user of the class, who may pass any name
RunScript ==
    /\ t_pc = "menu"
    /\ Len(task_history) < MaxTasks
    /\ \E script_name \in {"debug", "upload", "orchestrator", "unknown"}, end \in ScriptEnds :
         LET r == run_script(task_history, success_count, failure_count, script_name, end) IN
         /\ t_last' = r.output
         /\ task_history' = r.task_history
         /\ success_count' = r.success_count
         /\ failure_count' = r.failure_count
    /\ UNCHANGED <<t_command, t_stages, t_summary, t_pc, t_exit, nonTaskVars>>

\* menu choice 4: run_full_pipeline, lines 110-118
MenuPipeline ==
    /\ t_pc = "menu"
    /\ Len(task_history) + Len(SCRIPTS) <= MaxTasks
    /\ t_pc' = "stage"
    /\ t_stages' = <<>>
    /\ t_summary' = NoSummary
    /\ UNCHANGED <<task_history, success_count, failure_count, t_command, t_last, t_exit,
                   nonTaskVars>>

\* run_full_pipeline: results["stages"][name] = self.run_...()
PipelineStage ==
    /\ t_pc = "stage"
    /\ LET stage == Len(t_stages) + 1 IN
       \E end \in ScriptEnds :
         LET r == run_script(task_history, success_count, failure_count, SCRIPTS[stage], end) IN
         /\ t_last' = r.output
         /\ task_history' = r.task_history
         /\ success_count' = r.success_count
         /\ failure_count' = r.failure_count
         /\ t_stages' = Append(t_stages, <<SCRIPTS[stage], r.output>>)
         /\ t_pc' = after_stage(stage, r.output)
    /\ UNCHANGED <<t_command, t_summary, t_exit, nonTaskVars>>

\* run_full_pipeline: the summary and the return; in command-line mode main
\* ends after it
PipelineSummary ==
    /\ t_pc = "summary"
    /\ t_summary' = [total_tasks |-> Len(t_stages), successful |-> success_count,
                     failed |-> failure_count]
    /\ IF t_command = "pipeline"
       THEN t_pc' = "exited" /\ t_exit' = 0
       ELSE t_pc' = "menu" /\ t_exit' = t_exit
    /\ UNCHANGED <<task_history, success_count, failure_count, t_command, t_stages, t_last,
                   nonTaskVars>>

\* menu choice 0: the loop breaks and main ends
MenuExit ==
    /\ t_pc = "menu"
    /\ t_pc' = "exited"
    /\ t_exit' = 0
    /\ UNCHANGED <<task_history, success_count, failure_count, t_command, t_stages, t_summary,
                   t_last, nonTaskVars>>

InitTask ==
    /\ task_history = <<>>
    /\ success_count = 0
    /\ failure_count = 0
    /\ t_command = "none"
    /\ t_stages = <<>>
    /\ t_summary = NoSummary
    /\ t_last = NoOutput
    /\ t_pc = "idle"
    /\ t_exit = -1

NextTask ==
    \/ TaskMain
    \/ TaskCommand
    \/ RunScript
    \/ MenuPipeline
    \/ PipelineStage
    \/ PipelineSummary
    \/ MenuExit

----------------------------------------------------------------------------
(* ui/table_mapper.py: TableMapperWidget.  A row is the sequence of the     *)
(* texts of its cells; the user types into the first cell of a row.         *)

MIN_ROWS == 1
default_column_names == <<"Parameter", "Value", "Unit", "Status", "Notes">>
ColName(n) == <<"Col1", "Col2", "Col3", "Col4", "Col5", "Col6", "Col7">>[n]
EmptyRow(columns) == [col \in 1..columns |-> ""]

\* QTableWidget.removeRow(row)
removeRowAt(rows, row) ==
    [i \in 1..(Len(rows) - 1) |-> IF i < row THEN rows[i] ELSE rows[i + 1]]

\* _removeRow with no test of the row count; selected is 0 with no selection
removeRow_unchecked(rows, selected) ==
    [warned |-> FALSE,
     rows |-> IF rows = <<>> THEN rows
              ELSE removeRowAt(rows, IF selected \in DOMAIN rows THEN selected ELSE Len(rows))]

\* _removeRow
removeRow(rows, selected) ==
    IF Len(rows) <= MIN_ROWS
    THEN [warned |-> TRUE, rows |-> rows]
    ELSE [warned |-> FALSE,
          rows |-> removeRowAt(rows, IF selected \in DOMAIN rows THEN selected ELSE Len(rows))]

\* _addRow
AddRow ==
    /\ Len(table_widget) < MaxRows
    /\ table_widget' = Append(table_widget, EmptyRow(Len(column_names)))
    /\ tw_last' = "addRow"
    /\ tw_warned' = FALSE
    /\ UNCHANGED <<column_names, table_mapper, current_mapping, e_emitted, e_warned,
                   nonWidgetVars>>

\* _removeRow, with the row the user selected or none
RemoveRow ==
    /\ \E selected \in 0..Len(table_widget) :
         LET r == removeRow(table_widget, selected) IN
         /\ table_widget' = r.rows
         /\ tw_warned' = r.warned
    /\ tw_last' = "removeRow"
    /\ UNCHANGED <<column_names, table_mapper, current_mapping, e_emitted, e_warned,
                   nonWidgetVars>>

\* _addColumn
AddColumn ==
    /\ Len(column_names) < MaxCols
    /\ column_names' = Append(column_names, ColName(Len(column_names) + 1))
    /\ table_widget' = [i \in DOMAIN table_widget |-> Append(table_widget[i], "")]
    /\ tw_last' = "addColumn"
    /\ tw_warned' = FALSE
    /\ UNCHANGED <<table_mapper, current_mapping, e_emitted, e_warned, nonWidgetVars>>

\* _removeColumn
RemoveColumn ==
    /\ IF Len(column_names) > 1
       THEN /\ column_names' = SubSeq(column_names, 1, Len(column_names) - 1)
            /\ table_widget' = [i \in DOMAIN table_widget |->
                                   SubSeq(table_widget[i], 1, Len(table_widget[i]) - 1)]
            /\ tw_warned' = FALSE
       ELSE /\ UNCHANGED <<column_names, table_widget>>
            /\ tw_warned' = TRUE
    /\ tw_last' = "removeColumn"
    /\ UNCHANGED <<table_mapper, current_mapping, e_emitted, e_warned, nonWidgetVars>>

\* the user types into the first cell of a row
EditCell ==
    /\ \E row \in DOMAIN table_widget, text \in {"pH", "7.2"} :
         /\ table_widget[row][1] # text
         /\ table_widget' = [table_widget EXCEPT ![row][1] = text]
    /\ tw_last' = "edit"
    /\ tw_warned' = FALSE
    /\ UNCHANGED <<column_names, table_mapper, current_mapping, e_emitted, e_warned,
                   nonWidgetVars>>

----------------------------------------------------------------------------
(* ui/mapping_editor.py: MappingEditorWindow.  Its child table has five     *)
(* columns and cells without items, which _collectTableData reads as "".    *)

\* _collectMapping: pdf_path, fields and child_table
collectMapping(rows) ==
    Dict(<<Item("pdf_path", PyNone), Item("fields", PyNone),
           Item("child_table", PyList([i \in 1..rows |-> Row(<<>>)]))>>)

\* _validateMapping: whether it passes, and the validationError it emits
validateMapping(mapping, rows) ==
    IF ~(Has(mapping, "product_item") /\ Truthy(Get(mapping, "product_item")))
    THEN [ok |-> FALSE, emitted |-> <<"validationError: Product Item is mandatory.">>]
    ELSE IF rows < 1
    THEN [ok |-> FALSE, emitted |-> <<"validationError: At least one row required in table.">>]
    ELSE [ok |-> TRUE, emitted |-> <<>>]

\* _addTableRow
AddTableRow ==
    /\ table_mapper < MaxRows
    /\ table_mapper' = table_mapper + 1
    /\ e_emitted' = <<>>
    /\ e_warned' = FALSE
    /\ UNCHANGED <<table_widget, column_names, tw_last, tw_warned, current_mapping,
                   nonWidgetVars>>

\* _removeTableRow
RemoveTableRow ==
    /\ IF table_mapper > 1
       THEN table_mapper' = table_mapper - 1 /\ e_warned' = FALSE
       ELSE table_mapper' = table_mapper /\ e_warned' = TRUE
    /\ e_emitted' = <<>>
    /\ UNCHANGED <<table_widget, column_names, tw_last, tw_warned, current_mapping,
                   nonWidgetVars>>

\* _handleSave
HandleSave ==
    /\ current_mapping' = collectMapping(table_mapper)
    /\ e_emitted' = <<"mappingChanged">>
    /\ e_warned' = FALSE
    /\ UNCHANGED <<table_widget, column_names, tw_last, tw_warned, table_mapper,
                   nonWidgetVars>>

\* _handleExport
HandleExport ==
    /\ LET v == validateMapping(current_mapping, table_mapper) IN
       e_emitted' = IF v.ok THEN <<"exportRequested">>
                    ELSE v.emitted \o
                         <<"validationError: Please fix validation errors before exporting.">>
    /\ e_warned' = FALSE
    /\ UNCHANGED <<table_widget, column_names, tw_last, tw_warned, table_mapper,
                   current_mapping, nonWidgetVars>>

InitWidgets ==
    /\ table_widget = <<EmptyRow(Len(default_column_names))>>
    /\ column_names = default_column_names
    /\ tw_last = "none"
    /\ tw_warned = FALSE
    /\ table_mapper = 1
    /\ current_mapping = Dict(<<>>)
    /\ e_emitted = <<>>
    /\ e_warned = FALSE

NextWidgets ==
    \/ AddRow
    \/ RemoveRow
    \/ AddColumn
    \/ RemoveColumn
    \/ EditCell
    \/ AddTableRow
    \/ RemoveTableRow
    \/ HandleSave
    \/ HandleExport

----------------------------------------------------------------------------
(* Initial state: a fresh exporter, a fresh generator, no output files *)

Init ==
    /\ errors = <<>>
    /\ jinja_template = <<>>
    /\ self_mapping = Dict(<<>>)
    /\ fs = [p \in Paths |-> NoFile]
    /\ pc = "idle"
    /\ cur = [op |-> "none", mapping |-> NotADict, path |-> "", before |-> NoFile]
    /\ ret = NoRet
    /\ writes = 0
    /\ loaded = NotADict
    /\ elements = <<>>
    /\ output_format = "html"
    /\ template = NoTemplate
    /\ InitParser
    /\ InitBatch
    /\ InitUpload
    /\ InitJob
    /\ InitOrch
    /\ InitMetadata
    /\ InitTask
    /\ InitWidgets

Next ==
    \/ ValidateMapping
    \/ GenerateHtml
    \/ ExportCall
    \/ ExportValidate
    \/ ExportRender
    \/ ExportWrite

Spec == Init /\ [][Next]_vars

NextTemplate ==
    \/ NewGenerator
    \/ SetElements
    \/ Generate

SpecTemplate == Init /\ [][NextTemplate]_vars

NextMapping ==
    \/ ExportMappingCall
    \/ ToFileCall

SpecMapping == Init /\ [][NextMapping]_vars

NextJson ==
    \/ JsonExport
    \/ JsonReload

SpecJson == Init /\ [][NextJson]_vars

SpecParser == Init /\ [][NextParser]_vars

SpecBatch == Init /\ [][NextBatch]_vars

SpecUpload == Init /\ [][NextUpload]_vars

SpecJob == Init /\ [][NextJob]_vars

SpecOrch == Init /\ [][NextOrch]_vars

SpecMetadata == Init /\ [][NextMetadata]_vars

SpecTask == Init /\ [][NextTask]_vars

SpecWidgets == Init /\ [][NextWidgets]_vars

\* the user keeps coming back to the Save Mapping and Export to ERPNext buttons
SpecWidgetsFair == SpecWidgets /\ WF_vars(HandleSave) /\ WF_vars(HandleExport)

----------------------------------------------------------------------------
(* What the claims say about a mapping, stated on the mapping itself *)

MandatoryPresent(mapping) ==
    Has(mapping, "product_item") /\ Truthy(Get(mapping, "product_item"))

ChildTablePresent(mapping) ==
    /\ Has(mapping, "child_table")
    /\ IsList(Get(mapping, "child_table"))
    /\ Len(Get(mapping, "child_table").rows) >= 1

ChildTableEmpty(mapping) ==
    /\ Has(mapping, "child_table")
    /\ IsList(Get(mapping, "child_table"))
    /\ Get(mapping, "child_table").rows = <<>>

IsMandatoryError(e) == e.kind = "mandatory" /\ e.field = "product_item"
IsChildTableError(e) == e.kind \in {"child_table_not_found", "child_table_rows"}
IsWriteError(e) == e.kind = "write"

ChildTableErrors(errs) == {i \in DOMAIN errs : IsChildTableError(errs[i])}

\* validate_mapping has just returned to its caller
Validated == cur.op = "validate_mapping" /\ pc = "idle"

----------------------------------------------------------------------------
(* Claims *)

\* C1: whenever validate_mapping is given a mapping whose mandatory field
\* product_item is absent or falsy, it returns False and the error list
\* afterwards holds exactly one error, the one naming product_item.
C1_MandatoryMissingOneError ==
    (Validated /\ ~MandatoryPresent(cur.mapping))
        => /\ ret.status = "False"
           /\ Len(errors) = 1
           /\ IsMandatoryError(errors[1])

C1_Witness ==
    /\ Validated
    /\ ~Has(cur.mapping, "product_item")
    /\ ret.status = "False"

\* C2 as stated: whenever validate_mapping is given a mapping whose child
\* table is a list of zero rows, whatever else the mapping holds, it returns
\* False and the error list holds exactly one child-table error.
C2_EmptyTableOneError_Original ==
    (Validated /\ ChildTableEmpty(cur.mapping))
        => /\ ret.status = "False"
           /\ Cardinality(ChildTableErrors(errors)) = 1

\* C2 as amended: when the mandatory field is present and non-empty and the
\* child table is a list of zero rows, validate_mapping returns False and the
\* error list holds exactly one error, a child-table error; when the
\* mandatory field is missing as well, it returns False and the error list
\* holds no child-table error.
C2_EmptyTableOneError ==
    (Validated /\ ChildTableEmpty(cur.mapping))
        => /\ ret.status = "False"
           /\ Len(errors) = 1
           /\ IF MandatoryPresent(cur.mapping)
              THEN IsChildTableError(errors[1])
              ELSE ChildTableErrors(errors) = {}

C2_Witness ==
    /\ Validated
    /\ ChildTableEmpty(cur.mapping)
    /\ MandatoryPresent(cur.mapping)
    /\ ret.status = "False"

\* C3: validation checks the mandatory field first and stops at the first
\* failure: a mapping failing both checks leaves only the mandatory-field
\* error; a child-table error is only ever reported for a mapping whose
\* mandatory field passed; and once the mandatory field passed, the verdict
\* is that of the child-table check (key present, a list, at least 1 row).
C3_MandatoryBeforeChildTable ==
    Validated
        => /\ ~MandatoryPresent(cur.mapping)
                => errors = <<Err("mandatory", "product_item", 0)>>
           /\ ChildTableErrors(errors) # {} => MandatoryPresent(cur.mapping)
           /\ MandatoryPresent(cur.mapping)
                => /\ (ret.status = "True") = ChildTablePresent(cur.mapping)
                   /\ ~ChildTablePresent(cur.mapping)
                        => Len(errors) = 1 /\ IsChildTableError(errors[1])

C3_Witness ==
    /\ Validated
    /\ ~MandatoryPresent(cur.mapping)
    /\ ~ChildTablePresent(cur.mapping)
    /\ Len(errors) = 1

\* an export call and where it stands
Exporting == cur.op = "export"
ExportReturned == Exporting /\ pc \in {"exported", "rejected"}

\* C4: an export call whose mapping fails validation returns status "error"
\* with the exporter's error list and output_path None, and never writes:
\* to_file is not invoked and the file at the output path is the one that
\* was there when the call was made.
C4_InvalidMappingNoWrite ==
    (Exporting /\ ~(MandatoryPresent(cur.mapping) /\ ChildTablePresent(cur.mapping)))
        => /\ pc \in {"unvalidated", "rejected"}
           /\ writes = 0
           /\ fs[cur.path] = cur.before
           /\ pc = "rejected"
                => /\ ret.status = "error"
                   /\ ret.errors = errors
                   /\ Len(ret.errors) = 1
                   /\ ret.output_path = "None"

C4_Witness ==
    /\ ExportReturned
    /\ ~MandatoryPresent(cur.mapping)
    /\ cur.before.exists
    /\ cur.path = OkPath
    /\ ret.status = "error"

\* the steps an export call may take
ExportTransitions ==
    {<<"unvalidated", "validated">>, <<"unvalidated", "rejected">>,
     <<"validated", "rendered">>, <<"validated", "rejected">>,
     <<"rendered", "exported">>, <<"rendered", "rejected">>}

\* C5: every export call goes unvalidated -> validated -> exported or ends
\* rejected; to_file is invoked only for a mapping that passed validation,
\* only from the validated call that has its template, and at most once per
\* call; a write that fails ends the call rejected, with status "error", a
\* write error in the returned error list and output_path None, and a call
\* returns status "success" only when it ends exported.
C5_ExportStateMachine ==
    [][ /\ (Exporting' /\ pc # pc' /\ pc' # "unvalidated")
              => <<pc, pc'>> \in ExportTransitions
        /\ writes' # writes /\ writes' # 0
              => /\ pc = "rendered"
                 /\ MandatoryPresent(cur.mapping) /\ ChildTablePresent(cur.mapping)
                 /\ writes' = 1
        /\ fs' # fs => writes' = writes + 1
        /\ (Exporting' /\ writes' = 1 /\ cur'.path # OkPath)
              => /\ pc' = "rejected"
                 /\ ret'.status = "error"
                 /\ \E i \in DOMAIN ret'.errors : IsWriteError(ret'.errors[i])
                 /\ ret'.output_path = "None"
        /\ (Exporting' /\ ret'.status = "success")
              => pc' = "exported" /\ writes' = 1 /\ cur'.path = OkPath
      ]_vars

C5_Witness ==
    /\ ExportReturned
    /\ writes = 1
    /\ cur.path = MissingDirPath
    /\ pc = "rejected"
    /\ ret.status = "error"

\* the rows kept under a key, when they are a list of rows that have a len()
RowsUnder(mapping, key) ==
    IF Has(mapping, key) /\ IsList(Get(mapping, key))
          /\ \A i \in DOMAIN Get(mapping, key).rows : Get(mapping, key).rows[i].sized
    THEN Get(mapping, key).rows
    ELSE <<>>

\* a valid mapping as the test suite builds it: a non-empty product item and
\* a child table of at least one row, kept under child_table as in the spec's
\* scenario or under child_table_data as in the sample mapping of conftest.py
ValidAsTested(mapping) ==
    /\ MandatoryPresent(mapping)
    /\ RowsUnder(mapping, "child_table") # <<>>
          \/ RowsUnder(mapping, "child_table_data") # <<>>

\* C6: an export call given a valid mapping (the sample mapping of the test
\* suite included) and a writable path returns status "success" with the
\* given path as output_path and an empty error list, and afterwards the
\* file at the path exists and is not empty.
C6_ValidMappingExports ==
    (ExportReturned /\ ValidAsTested(cur.mapping) /\ cur.path = OkPath)
        => /\ ret.status = "success"
           /\ ret.output_path = cur.path
           /\ ret.errors = <<>>
           /\ fs[cur.path].exists
           /\ fs[cur.path].data # <<>>

\* C7: for a valid mapping, the file export wrote and the text generate_html
\* returned are not empty, hold the opening and the closing html tag, and
\* hold the value of product_item as literal text.
C7_HtmlHoldsTagsAndValue ==
    /\ (ExportReturned /\ pc = "exported")
          => LET html == fs[cur.path].data IN
             /\ html # <<>>
             /\ Contains(html, "<html>")
             /\ Contains(html, "</html>")
             /\ Contains(html, Get(cur.mapping, "product_item").s)
    /\ (cur.op = "generate_html" /\ pc = "idle" /\ cur.mapping.isdict
           /\ MandatoryPresent(cur.mapping)
           /\ RowsUnder(cur.mapping, "child_table") # <<>>)
          => /\ ret.status = "text"
             /\ ret.text # <<>>
             /\ Contains(ret.text, "<html>")
             /\ Contains(ret.text, "</html>")
             /\ Contains(ret.text, Get(cur.mapping, "product_item").s)

\* generate() has just returned a JSON template for the current elements
JsonGenerated == template.format = "json"

TextElementsOf(elems) == {i \in DOMAIN elems : elems[i].element_type = "text"}

\* C8: for a list of n >= 1 text elements and no image element, the JSON
\* template holds exactly n field entries, the i-th made from the i-th
\* element, with idx values 1..n.
C8_OneEntryPerTextElement ==
    (JsonGenerated /\ TextElementsOf(elements) = DOMAIN elements)
        => /\ Len(template.fields) = Len(elements)
           /\ \A i \in DOMAIN elements :
                /\ template.fields[i].idx = i
                /\ template.fields[i].fieldname = elements[i].content

C8_Witness ==
    /\ JsonGenerated
    /\ Len(elements) = MaxElems
    /\ TextElementsOf(elements) = DOMAIN elements
    /\ Len(template.fields) = MaxElems

\* C9 as stated: the JSON schema is keyed by the text content, so it holds
\* one entry per distinct text content and no two entries share a name.
C9_KeyedByContent_Original ==
    JsonGenerated
        => /\ Len(template.fields)
                = Cardinality({elements[i].content : i \in TextElementsOf(elements)})
           /\ \A i, j \in DOMAIN template.fields :
                template.fields[i].fieldname = template.fields[j].fieldname => i = j

\* C9 as amended: the JSON schema is a list with one entry per text element,
\* in element order; nothing is keyed by name and nothing is overwritten, so
\* every name occurs in as many entries as there are text elements with that
\* content, and each entry keeps the position of its own element as idx.
C9_DuplicatesKept ==
    JsonGenerated
        => /\ Len(template.fields) = Cardinality(TextElementsOf(elements))
           /\ \A i \in TextElementsOf(elements) :
                Cardinality({k \in DOMAIN template.fields :
                                template.fields[k].fieldname = elements[i].content})
                  = Cardinality({j \in TextElementsOf(elements) :
                                    elements[j].content = elements[i].content})
           /\ {template.fields[k].idx : k \in DOMAIN template.fields}
                = TextElementsOf(elements)

C9_Witness ==
    /\ JsonGenerated
    /\ \E i, j \in DOMAIN template.fields :
         i # j /\ template.fields[i].fieldname = template.fields[j].fieldname

----------------------------------------------------------------------------
(* Claims about PDFParser *)

\* where an element comes from: its page, the bbox of its block, its size
ElementKey(e) == <<e.page_num, e.bbox, e.font_size>>
KeyBefore(a, b) ==
    \/ a[1] < b[1]
    \/ a[1] = b[1] /\ a[2] < b[2]
    \/ a[1] = b[1] /\ a[2] = b[2] /\ a[3] < b[3]

\* what the document holds: every span and every image block, with its place
SourceSpans ==
    {<<"text", pdf[p].blocks[b].lines[l][k].text,
       p - 1, pdf[p].blocks[b].bbox, pdf[p].blocks[b].lines[l][k].size>> :
        <<p, b, l, k>> \in
            {q \in (1..Len(pdf)) \X (1..3) \X (1..2) \X (1..2) :
                /\ q[2] \in DOMAIN pdf[q[1]].blocks
                /\ pdf[q[1]].blocks[q[2]].type = 0
                /\ q[3] \in DOMAIN pdf[q[1]].blocks[q[2]].lines
                /\ q[4] \in DOMAIN pdf[q[1]].blocks[q[2]].lines[q[3]]}}
SourceImages ==
    {<<"image", "[Image]", p - 1, pdf[p].blocks[b].bbox, 0>> :
        <<p, b>> \in {q \in (1..Len(pdf)) \X (1..3) :
                        /\ q[2] \in DOMAIN pdf[q[1]].blocks
                        /\ pdf[q[1]].blocks[q[2]].type = 1}}

\* C11: parse_all_pages hands every page 0..page_count-1 to _parse_page once,
\* in page order, and returns the elements with page_num non-decreasing and,
\* within a page, in the source order of blocks, lines and spans, text and
\* image elements interleaved as the blocks occur; nothing is lost or added.
C11_ElementsInSourceOrder ==
    p_ret.status = "returned"
        => /\ visited = [i \in 1..Len(pdf) |-> i - 1]
           /\ \A i, j \in DOMAIN p_ret.elements :
                i < j => /\ p_ret.elements[i].page_num <= p_ret.elements[j].page_num
                         /\ KeyBefore(ElementKey(p_ret.elements[i]),
                                      ElementKey(p_ret.elements[j]))
           /\ {<<e.element_type, e.content, e.page_num, e.bbox, e.font_size>> :
                  e \in {p_ret.elements[i] : i \in DOMAIN p_ret.elements}}
                = SourceSpans \cup SourceImages
           /\ Len(p_ret.elements) = Cardinality(SourceSpans \cup SourceImages)

C11_Witness ==
    /\ p_ret.status = "returned"
    /\ pdf = <<PageB, PageA>>
    /\ Len(p_ret.elements) = 7
    /\ p_ret.elements[1].element_type = "image"
    /\ p_ret.elements[2].element_type = "text"

\* parse_all_pages has raised because a page failed to parse
PageFailed == p_ret.status = "raised" /\ visited # <<>>

\* C12: when page k fails to parse, parse_all_pages raises at once: page k
\* was tried once, no later page was parsed, nothing is returned, and
\* parser.elements holds no element of the document.
C12_FailureLeavesNoElements ==
    PageFailed
        => /\ visited = [i \in 1..Len(visited) |-> i - 1]
           /\ ~pdf[Len(visited)].ok
           /\ \A i \in 1..(Len(visited) - 1) : pdf[i].ok
           /\ p_ret.elements = <<>>
           /\ p_elements = <<>>

\* C13: on one parser and one document, every parse_all_pages call that
\* returns gives the same element sequence as the call that returned before
\* it, whether or not the document was opened beforehand; elements of an
\* earlier call are not carried into the later result.
C13_ParseAgainSameElements ==
    (p_ret.status = "returned" /\ p_prev.status = "returned")
        => p_ret.elements = p_prev.elements

C13_Witness ==
    /\ p_ret.status = "returned"
    /\ p_prev.status = "returned"
    /\ Len(p_ret.elements) > 0
    /\ pdf = <<PageA, PageB>>

----------------------------------------------------------------------------
(* Claims about BatchProcessor *)

\* the names of the documents among the first n whose processing raised
FailedNames(docs, n) ==
    LET failed == SelectSeq(SubSeq(docs, 1, n), LAMBDA d : d.outcome # "ok")
    IN  [k \in DOMAIN failed |-> failed[k].name]

\* C14: at every iteration boundary of process_document_type, processed =
\* success + failed, len(errors) = failed, and the error records name, in
\* document order, exactly the documents so far whose processing raised; an
\* exception never stops the loop, so at return processed is the number of
\* documents fetched.
C14_BatchCounters ==
    b_pc \in {"loop", "returned"}
        => /\ b_results.processed = b_results.success + b_results.failed
           /\ Len(b_results.errors) = b_results.failed
           /\ b_results.processed = b_next - 1
           /\ [k \in DOMAIN b_results.errors |-> b_results.errors[k].name]
                = FailedNames(b_docs, b_results.processed)
           /\ b_pc = "returned" => b_results.processed = Len(b_docs)

C14_Witness ==
    /\ b_pc = "returned"
    /\ Len(b_docs) = MaxDocs
    /\ b_docs[1].outcome # "ok"
    /\ b_docs[2].outcome = "ok"
    /\ b_results.failed >= 1
    /\ b_results.success >= 1

----------------------------------------------------------------------------
(* Claims about scripts/06_api_upload.py *)

\* batch_upload has read its file and is in or past its loop
InUploadLoop == u_pc = "uploading" \/ (u_pc \in {"returned", "exited"} /\ u_formats = u_file.formats
                                          /\ u_file.kind \in {"array", "object"} /\ u_creds = "ok")

FailedFormats(formats, n) ==
    LET failed == SelectSeq(SubSeq(formats, 1, n), LAMBDA f : f.answer \notin {"200", "201"})
    IN  [k \in DOMAIN failed |-> ErrorRecord("format", failed[k].name)]

FullSuccess ==
    /\ u_creds = "ok"
    /\ u_file.kind \in {"array", "object"}
    /\ \A i \in DOMAIN u_file.formats : u_file.formats[i].answer \in {"200", "201"}

\* C19: the upload script exits with code 0 exactly on full success: the
\* credentials and the formats file were read and every format was uploaded;
\* with a failed upload, a missing or invalid formats file, a missing
\* credentials file or no configuration for the environment it exits with 1.
C19_ExitZeroOnlyOnFullSuccess ==
    u_pc = "exited"
        => /\ u_exit \in {0, 1}
           /\ (u_exit = 0) = FullSuccess

----------------------------------------------------------------------------
(* Claims about the migration job of amb_print/tasks.py *)

\* worker w takes the step that ends its execution of run_migration_job by
\* reaching the end of the function
RunsToEnd(w) == w_pc[w] \in InRun /\ w_pc'[w] = "idle" /\ w_out'[w] # "raised"

\* C16: the job status is always one of Queued, Running, Completed, Failed;
\* run_migration_job first sets Running with progress 0; an execution that
\* reaches its end leaves Completed with progress 100 when no exception
\* escaped the outer try block, and Failed otherwise, never Running.
C16_RunEndsCompletedOrFailed ==
    [][/\ job'.status \in JobStatuses
       /\ \A w \in Workers :
            /\ (w_pc[w] = "run" /\ w_pc'[w] = "try")
                 => job'.status = "Running" /\ job'.progress = 0
            /\ RunsToEnd(w)
                 => /\ job'.status \in {"Completed", "Failed"}
                    /\ w_pc[w] = "loop" => job'.status = "Completed" /\ job'.progress = 100
                    /\ w_pc[w] = "except" => job'.status = "Failed"
                    /\ w_pc[w] \in {"loop", "except"}]_vars

\* a run that went through the except branch has ended, with a half-done loop
C16_Witness ==
    /\ \E w \in Workers : w_out[w] = "failed" /\ w_pc[w] = "idle"
    /\ job.status = "Failed"
    /\ job.progress = 50

\* C17: scheduled_batch_migration that reads the status Running does not call
\* run_migration_job and leaves status, progress and last_run of the record
\* as they are; reading any other status it starts exactly one run.
C17_GuardSkipsWhenRunning ==
    [][\A w \in Workers :
         /\ (w_pc[w] = "idle" /\ w_pc'[w] = "checked")
              => job' = job /\ w_seen'[w] = job.status
         /\ (w_pc[w] = "checked" /\ w_pc'[w] # "checked")
              => IF w_seen[w] = "Running"
                 THEN job' = job /\ w_pc'[w] = "idle" /\ w_out'[w] = "skipped"
                 ELSE w_pc'[w] = "run"]_vars

\* one worker is in its run, and the scheduler's invocation on the other
\* returned without a run
C17_Witness ==
    /\ w_out[2] = "skipped" /\ w_pc[2] = "idle"
    /\ w_pc[1] = "loop"
    /\ job.status = "Running"
    /\ job.progress = 50

\* C18: the guard is a read followed by a separate write: every worker that
\* the scheduler sent into run_migration_job had read a status other than
\* Running, and yet two of them can be inside run_migration_job together.
C18_GuardIsNotAtomic ==
    \A w \in Workers :
        (w_pc[w] \in InRun /\ w_seen[w] # "none") => w_seen[w] # "Running"

\* both invocations of the scheduler read a status other than Running, both
\* wrote Running, and both are in the loop of run_migration_job
C18_Witness ==
    /\ \A w \in Workers : w_pc[w] = "loop" /\ w_seen[w] \in JobStatuses \ {"Running"}
    /\ job.status = "Running"
    /\ job.last_run = 2

----------------------------------------------------------------------------
(* Claims about scripts/08_phase4_orchestrator.py *)

StageRan(stage) == \E i \in DOMAIN o_stages : o_stages[i] = stage

\* C20: execute runs the upload only after setup, migration and validation
\* succeeded and with a formats file given; when setup fails no stage runs;
\* and the exit code is 0 exactly when setup passed and every stage that ran
\* returned success.
C20_UploadOnlyAfterSuccess ==
    /\ StageRan("upload")
         => /\ verify_setup(o_setup)
            /\ ResultOf(o_results, "migration")
            /\ ResultOf(o_results, "validation")
            /\ o_fmt_file = "formats.json"
    /\ ~verify_setup(o_setup) => o_stages = <<>>
    /\ Len(o_results) = Len(o_stages)
    /\ o_pc = "exited"
         => /\ o_exit \in {0, 1}
            /\ (o_exit = 0) = (verify_setup(o_setup) /\ all_values(o_results))

\* the upload ran and failed after two good stages
C20_Witness ==
    /\ o_pc = "exited"
    /\ Len(o_output_dir.json_files) = MaxFiles
    /\ o_stages = <<"migration", "validation", "upload">>
    /\ ~ResultOf(o_results, "upload")
    /\ o_exit = 1

\* C25: in run_migration_job a document type whose processing fails gets a
\* Failed migration log, the loop goes on to the next document type and the
\* job status is not touched; a run that gets through its n document types
\* has created exactly n logs, each Success or Failed, and ends Completed.
C25_FailedDocTypeDoesNotStopRun ==
    [][\A w \in Workers :
         /\ w_logs'[w] # w_logs[w] /\ w_pc[w] = "loop"
              => /\ \E status \in {"Success", "Failed"} : w_logs'[w] = Append(w_logs[w], status)
                 /\ j_logs' = j_logs + 1
                 /\ w_pc'[w] = "loop"
                 /\ w_idx'[w] = w_idx[w] + 1
                 /\ job'.status = job.status
         /\ (w_pc[w] = "loop" /\ w_pc'[w] = "idle" /\ w_out'[w] = "completed")
              => /\ Len(w_logs[w]) = w_doc_types[w]
                 /\ job'.status = "Completed"]_vars

\* a run whose first document type failed and whose second succeeded has
\* ended Completed
C25_Witness ==
    \E w \in Workers :
        /\ w_pc[w] = "idle"
        /\ w_out[w] = "completed"
        /\ w_logs[w] = <<"Failed", "Success">>
        /\ job.status = "Completed"
        /\ job.progress = 100

\* C27: trigger_migration starts run_migration_job with no check of the
\* status, and run_migration_job writes Running whatever the status is: a run
\* started from the queue never read the status, its first write is Running,
\* and two such runs can be in their Running phase together.
C27_TriggerHasNoGuard ==
    [][\A w \in Workers :
         /\ (w_pc[w] = "idle" /\ w_pc'[w] = "run")
              => w_seen'[w] = "none" /\ job' = job
         /\ (w_pc[w] = "run" /\ w_pc'[w] # "run" /\ w_out'[w] # "raised")
              => /\ w_pc'[w] = "try"
                 /\ job'.status = "Running"
                 /\ job'.last_run > job.last_run]_vars

\* two runs started from the queue have both written Running and progress and
\* are in their loops
C27_Witness ==
    /\ \A w \in Workers : w_seen[w] = "none" /\ w_pc[w] = "loop" /\ w_idx[w] >= 1
    /\ job.status = "Running"
    /\ job.progress = 50
    /\ job.last_run = 2

----------------------------------------------------------------------------
(* More claims about TemplateGenerator *)

\* the list holds a text element and an image element
Mixed(elems) == TextElementsOf(elems) \notin {{}, DOMAIN elems}

\* the position in elems of its k-th text element
TextPosition(elems, k) ==
    CHOOSE i \in TextElementsOf(elems) :
        Cardinality({j \in TextElementsOf(elems) : j <= i}) = k

IdxIsPosition ==
    /\ Len(template.fields) = Cardinality(TextElementsOf(elements))
    /\ \A k \in DOMAIN template.fields :
         template.fields[k].idx = TextPosition(elements, k)
    /\ \A k \in DOMAIN template.fields :
         k > 1 => template.fields[k].idx > template.fields[k - 1].idx

\* C28 as stated: idx is the 1-based position of the text element in the full
\* list, and for every list that mixes text and image elements the idx values
\* are strictly increasing but not contiguous.
C28_IdxNeverContiguous_Original ==
    (JsonGenerated /\ Mixed(elements))
        => /\ IdxIsPosition
           /\ \E k \in DOMAIN template.fields :
                template.fields[k].idx # k

\* C28 as amended: idx is the 1-based position of the text element in the
\* full list, so the idx values are strictly increasing; two successive
\* entries differ by more than 1 exactly when an image element lies between
\* their text elements, and the largest idx exceeds the number of entries
\* exactly when an image element precedes the last text element.  A mixed
\* list whose image elements all come after the text elements gets the
\* contiguous idx values 1..n.
C28_IdxIsPositionInFullList ==
    JsonGenerated
        => /\ IdxIsPosition
           /\ \A k \in DOMAIN template.fields :
                (template.fields[k].idx > k)
                  = (\E i \in 1..template.fields[k].idx : elements[i].element_type = "image")

\* text, image, text: the entries carry idx 1 and 3
C28_Witness ==
    /\ JsonGenerated
    /\ Len(elements) = 3
    /\ TextElementsOf(elements) = {1, 3}
    /\ Len(template.fields) = 2
    /\ template.fields[2].idx = 3

----------------------------------------------------------------------------
(* More claims about HTMLJinjaExporter *)

\* the step is an export_mapping call that rejects its mapping
RejectingExportMapping ==
    /\ cur'.op = "export_mapping"
    /\ ~validate_mapping(errors, cur'.mapping).ok
    /\ <<cur, ret, errors>>' # <<cur, ret, errors>>

\* the step is a to_file call that wrote its file
WritingToFile == cur'.op = "to_file" /\ ret'.status = "True" /\ fs' # fs

\* C29: export_mapping rejecting a mapping returns the empty string and
\* leaves the stored mapping and jinja_template as they were, and its errors
\* are those of the rejected mapping alone; to_file after it writes the
\* template that is still stored, the one of the last accepted mapping.
C29_RejectionKeepsTemplate ==
    [][/\ RejectingExportMapping
            => /\ ret'.status = "text" /\ ret'.text = <<>>
               /\ self_mapping' = self_mapping
               /\ jinja_template' = jinja_template
               /\ errors' = validate_mapping(<<>>, cur'.mapping).errors
               /\ errors' # <<>>
       /\ WritingToFile
            => /\ fs'[cur'.path] = File(jinja_template)
               /\ errors' = errors
               /\ (jinja_template # <<>> /\ ~build_html_from_mapping(self_mapping).raised)
                    => jinja_template
                         = generate_jinja_template(build_html_from_mapping(self_mapping).text)]_vars

\* after export_mapping of a valid mapping, export_mapping of an invalid one
\* and to_file: the file holds the template of the valid mapping and the
\* errors are those of the invalid one
C29_Witness ==
    /\ cur.op = "to_file"
    /\ ret.status = "True"
    /\ validate_mapping(<<>>, self_mapping).ok
    /\ jinja_template # <<>>
    /\ fs[OkPath] = File(generate_jinja_template(build_html_from_mapping(self_mapping).text))
    /\ errors = validate_mapping(<<>>, invalid_mapping_empty_table).errors
    /\ errors # <<>>

----------------------------------------------------------------------------
(* Claims about BaseExporter metadata *)

\* C23: metadata accumulates over set_metadata calls: a key that the metadata
\* holds is still held, with a value, after any later set_metadata call, and
\* get_export_info reads back what is stored.
C23_MetadataAccumulates ==
    [][/\ \A k \in MetadataKeys : metadata[k] # Absent => metadata'[k] # Absent
       /\ export_info' # export_info => export_info'.metadata = metadata]_vars

----------------------------------------------------------------------------
(* Claims about scripts/09_task_manager.py *)

\* C21: run_full_pipeline runs debug, upload and orchestrator once each, in
\* that order, whatever the earlier stages came to, and its result holds one
\* entry per stage.
C21_PipelineRunsAllStages ==
    /\ Len(t_stages) <= Len(SCRIPTS)
    /\ \A i \in DOMAIN t_stages : t_stages[i][1] = SCRIPTS[i]
    /\ t_pc = "stage" => Len(t_stages) < Len(SCRIPTS)
    /\ t_pc = "summary" => Len(t_stages) = Len(SCRIPTS)
    /\ t_summary # NoSummary
         => Len(t_stages) = Len(SCRIPTS) /\ t_summary.total_tasks = Len(SCRIPTS)

\* the pipeline has returned after a debug stage that timed out, an upload
\* stage that exited with 1 and an orchestrator stage that exited with 0
C21_Witness ==
    /\ t_summary.total_tasks = Len(SCRIPTS)
    /\ Len(t_stages) = Len(SCRIPTS)
    /\ t_stages[1][2] = Output("none", "error", "none")
    /\ t_stages[2][2] = Output("upload", "error", "1")
    /\ t_stages[3][2] = Output("orchestrator", "success", "0")
    /\ t_summary.successful = 1
    /\ t_summary.failed = 1

\* every script the command invoked exited with 0
AllInvokedSucceeded ==
    IF t_command = "pipeline"
    THEN \A i \in DOMAIN t_stages : t_stages[i][2].status = "success"
    ELSE t_last.status = "success"

\* C22: in command-line mode the task manager exits with 0 only when every
\* script it invoked exited with 0, and with another code when an invoked
\* script failed, timed out or was missing.
C22_ExitCodeFollowsOutcome ==
    (t_pc = "exited" /\ t_command \in {"debug", "upload", "orchestrator", "pipeline"})
        => (t_exit = 0) = AllInvokedSucceeded

\* the number of history entries with the given status
CountStatus(history, status) ==
    Cardinality({i \in DOMAIN history : history[i].status = status})

\* C26: success_count + failure_count = len(task_history), every history
\* entry with status success has return code 0, and a run_script call that
\* ends without a return code changes neither the counters nor the history:
\* whenever one of them changes, the call returned an output with a return
\* code, that output was appended, and one counter went up by one.
C26_CountersMatchHistory ==
    [][/\ success_count' + failure_count' = Len(task_history')
       /\ success_count' = CountStatus(task_history', "success")
       /\ \A i \in DOMAIN task_history' :
            (task_history'[i].status = "success") = (task_history'[i].return_code = "0")
       /\ (t_pc \in {"command", "menu", "stage"}
             /\ <<task_history, success_count, failure_count>>'
                  # <<task_history, success_count, failure_count>>)
            => /\ t_last'.return_code # "none"
               /\ task_history' = Append(task_history, t_last')
               /\ success_count' + failure_count' = success_count + failure_count + 1]_vars

\* after two recorded runs, a run_script call with an unknown name or a
\* timeout returned an error and left the counters and the history alone
C26_Witness ==
    /\ t_pc = "menu"
    /\ t_last = Output("none", "error", "none")
    /\ Len(task_history) = 2
    /\ success_count = 1
    /\ failure_count = 1

----------------------------------------------------------------------------
\* C24: whatever the user does with Add Row, Remove Row, Add Column and
\* Remove Column, both child tables keep at least MIN_ROWS rows and the
\* widget's table keeps at least one column, every row as wide as the
\* header; a Remove Row or Remove Column asked for at the minimum warns and
\* leaves the table as it was.
C24_TableKeepsOneRow ==
    [][ /\ Len(table_widget') >= MIN_ROWS
        /\ Len(column_names') >= 1
        /\ \A i \in DOMAIN table_widget' : Len(table_widget'[i]) = Len(column_names')
        /\ table_mapper' >= 1
        /\ (tw_last' = "removeRow" /\ Len(table_widget) <= MIN_ROWS)
             => table_widget' = table_widget
        /\ (tw_last' = "removeColumn" /\ Len(column_names) <= 1)
             => (table_widget' = table_widget /\ column_names' = column_names)
        /\ (table_mapper <= 1) => table_mapper' >= table_mapper
      ]_vars

\* C24: a Remove Row refused on the one remaining, edited row of the widget,
\* whose last column is also the only one, and a Remove Row refused in the
\* window
C24_Witness ==
    /\ tw_last = "removeRow"
    /\ tw_warned
    /\ table_widget = <<(<<"pH">>)>>
    /\ column_names = <<"Parameter">>
    /\ table_mapper = 1
    /\ e_warned

\* C30: a user who keeps pressing Save Mapping and Export to ERPNext in a
\* fresh MappingEditorWindow sooner or later sees exportRequested emitted.
C30_ExportIsEventuallyRequested ==
    <>(e_emitted = <<"exportRequested">>)

====
